---------------------------- MODULE Spec2Model ----------------------------
(***************************************************************************)
(* A model of acrion image: Color<T> (color.hpp) and BitmapData<T>         *)
(* (bitmap_data.hpp).                                                      *)
(*                                                                         *)
(* Several specifications share the module:                                *)
(*   Spec       BitmapData<uint8_t> objects and the buffers they refer to  *)
(*   SpecPixel  Plot and Get on one container                              *)
(*   SpecColor  Color<T> arithmetic for T = uint8/16/32/64                 *)
(*   SpecDiff   BitmapData<T>::AbsoluteDiff for T = uint8/16/32/64         *)
(*   SpecInterpolation  interpolation::Do                                  *)
(*   SpecGamma  the display cache used by two threads                      *)
(*   SpecCompare  the comparison operators of BitmapData                   *)
(*   SpecBrightness  Color<uint8_t>::Gray and WithBrightness               *)
(*   SpecDisplay  BitmapData<uint8_t>::CalculateDisplayValue               *)
(*   SpecConvert  BitmapData<uint8_t>::ConvertToDepth8                     *)
(*   SpecContains  Plot and ContainsColors on one container                *)
(*   SpecDraw  the integer line walk Draw with a callback                  *)
(*   SpecScan  MaxGray, MaxGray2 and MinGray run by two threads            *)
(*                                                                         *)
(* In SpecColor and SpecDiff a sample of type T is the sequence of its     *)
(* sizeof(T) bytes, least significant first, so that 64-bit arithmetic is  *)
(* exact.  In Spec a sample is a number in 0..255.                         *)
(***************************************************************************)
EXTENDS Integers, Sequences, FiniteSets, TLC

VARIABLES
    colorTest,   \* SpecColor: the two Color<T> operands and the result
    diff,        \* SpecDiff: the operands and the result of AbsoluteDiff
    obj,         \* Spec: the BitmapData<uint8_t> objects
    heap,        \* Spec: the contents of the stable_reference_buffers
    last,        \* Spec: the last operation, its arguments and its outcome
    copies,      \* Spec: the pairs {b, a} with b a copy of a, neither assigned since
    steps,       \* Spec: the number of operations executed
    call,        \* the call of a function under check: arguments and outcome
    cache        \* SpecGamma: the display cache, its lock and the threads

vars == <<colorTest, diff, obj, heap, last, copies, steps, call, cache>>

None == "none"

(***************************************************************************)
(* Fixed-width integers as byte sequences, least significant byte first.   *)
(***************************************************************************)

\* the sample types T of the model, named by sizeof(T)
SampleSizes == {1, 2, 4, 8}

RECURSIVE FromNat(_, _)
\* the n-byte unsigned integer of value v
FromNat(v, n) == IF n = 0 THEN <<>> ELSE <<v % 256>> \o FromNat(v \div 256, n - 1)

\* std::numeric_limits<T>::max() for an unsigned T of n bytes
NumericMax(n) == [i \in 1..n |-> 255]

\* std::numeric_limits<T>::min() for an unsigned T of n bytes
NumericMin(n) == [i \in 1..n |-> 0]

\* 2^(8n-1), the smallest n-byte value with the top bit set
TopBit(n) == [i \in 1..n |-> IF i = n THEN 128 ELSE 0]

RECURSIVE SubBytes(_, _, _, _)
\* bytes i..Len(x) of x - y - borrow, modulo 2^(8 Len(x))
SubBytes(x, y, i, borrow) ==
    IF i > Len(x) THEN <<>>
    ELSE LET d == x[i] - y[i] - borrow
         IN  <<(d + 256) % 256>> \o SubBytes(x, y, i + 1, IF d < 0 THEN 1 ELSE 0)

\* x - y in unsigned (or two's complement) arithmetic of Len(x) bytes
WrapSub(x, y) == SubBytes(x, y, 1, 0)

RECURSIVE AddBytes(_, _, _, _)
\* bytes i..Len(x) of x + y + carry, modulo 2^(8 Len(x))
AddBytes(x, y, i, carry) ==
    IF i > Len(x) THEN <<>>
    ELSE LET s == x[i] + y[i] + carry
         IN  <<s % 256>> \o AddBytes(x, y, i + 1, s \div 256)

\* x + y in unsigned (or two's complement) arithmetic of Len(x) bytes
WrapAdd(x, y) == AddBytes(x, y, 1, 0)

RECURSIVE LessFrom(_, _, _)
\* x < y as unsigned integers, comparing from byte i downwards
LessFrom(x, y, i) ==
    IF i = 0 THEN FALSE
    ELSE IF x[i] # y[i] THEN x[i] < y[i]
    ELSE LessFrom(x, y, i - 1)

\* x < y for unsigned integers of the same width
LessU(x, y) == LessFrom(x, y, Len(x))

\* the sign bit of a two's complement integer
IsNegative(x) == x[Len(x)] >= 128

\* x < y for two's complement integers of the same width
LessS(x, y) ==
    IF IsNegative(x) # IsNegative(y) THEN IsNegative(x) ELSE LessU(x, y)

(***************************************************************************)
(* Color<T> (color.hpp).                                                   *)
(***************************************************************************)

\* Color(red, green, blue, alpha)
Color(red, green, blue, alpha) ==
    [red |-> red, green |-> green, blue |-> blue, alpha |-> alpha]

\* a variant of operator-=(Color) that clamps each channel at the minimum
Color_MinusAssign_Clamped(lhs, rhs) ==
    LET sat(x, y) == IF LessU(x, y) THEN NumericMin(Len(x)) ELSE WrapSub(x, y)
    IN  Color(sat(lhs.red, rhs.red), sat(lhs.green, rhs.green),
              sat(lhs.blue, rhs.blue), lhs.alpha)

\* a variant of operator-=(Color) that subtracts the alpha channel as well
Color_MinusAssign_WithAlpha(lhs, rhs) ==
    Color(WrapSub(lhs.red, rhs.red), WrapSub(lhs.green, rhs.green),
          WrapSub(lhs.blue, rhs.blue), WrapSub(lhs.alpha, rhs.alpha))

\* Color& operator-=(Color rhs): the value of *this afterwards
Color_MinusAssign(lhs, rhs) ==
    Color(WrapSub(lhs.red, rhs.red), WrapSub(lhs.green, rhs.green),
          WrapSub(lhs.blue, rhs.blue), lhs.alpha)

\* Color& operator+=(Color rhs): the value of *this afterwards
Color_PlusAssign(lhs, rhs) ==
    Color(WrapAdd(lhs.red, rhs.red), WrapAdd(lhs.green, rhs.green),
          WrapAdd(lhs.blue, rhs.blue), lhs.alpha)

\* Color<T> operator-(Color<T> lhs, const Color<T>& rhs)
Color_Minus(lhs, rhs) == Color_MinusAssign(lhs, rhs)

\* Color<T> operator+(Color<T> lhs, const Color<T>& rhs)
Color_Plus(lhs, rhs) == Color_PlusAssign(lhs, rhs)

\* bool operator==(const Color<T>& lhs, const Color<U>& rhs)
Color_Equal(lhs, rhs) ==
    /\ lhs.red = rhs.red
    /\ lhs.green = rhs.green
    /\ lhs.blue = rhs.blue
    /\ lhs.alpha = rhs.alpha

(***************************************************************************)
(* SpecColor: two colors of one sample type, and one operation on them.    *)
(***************************************************************************)

\* the red, green, blue values the operands are drawn from, for n bytes
ColorTriples(n) ==
    { <<FromNat(3, n), FromNat(5, n), FromNat(7, n)>>,
      <<FromNat(5, n), FromNat(3, n), FromNat(2, n)>>,
      <<FromNat(0, n), FromNat(0, n), FromNat(0, n)>>,
      <<FromNat(7, n), FromNat(7, n), FromNat(7, n)>>,
      <<NumericMax(n), NumericMax(n), NumericMax(n)>>,
      <<FromNat(0, n), NumericMax(n), TopBit(n)>> }

\* the alpha values the operands are drawn from, for n bytes
ColorAlphas(n) == { NumericMax(n), FromNat(9, n) }

ColorInputs(n) ==
    { Color(t[1], t[2], t[3], al) : t \in ColorTriples(n), al \in ColorAlphas(n) }

ColorIdle == [T |-> 0, op |-> None]
DiffIdle == [T |-> 0, pc |-> None]
ObjIdle == <<>>
HeapIdle == <<>>
LastIdle == [op |-> None]
CallIdle == [op |-> None]
CacheIdle == [pc |-> None]

InitColor ==
    /\ \E n \in SampleSizes : \E a \in ColorInputs(n), b \in ColorInputs(n) :
          colorTest = [T |-> n, op |-> "init", a |-> a, b |-> b,
                       a0 |-> a, r |-> None]
    /\ diff = DiffIdle
    /\ obj = ObjIdle
    /\ heap = HeapIdle
    /\ last = LastIdle
    /\ copies = {}
    /\ steps = 0
    /\ call = CallIdle
    /\ cache = CacheIdle

\* a -= b
ColorMinusAssign ==
    /\ colorTest.op = "init"
    /\ colorTest' = [colorTest EXCEPT !.op = "-=",
                        !.a = Color_MinusAssign(colorTest.a, colorTest.b)]
    /\ UNCHANGED <<diff, obj, heap, last, copies, steps, call, cache>>

\* a += b
ColorPlusAssign ==
    /\ colorTest.op = "init"
    /\ colorTest' = [colorTest EXCEPT !.op = "+=",
                        !.a = Color_PlusAssign(colorTest.a, colorTest.b)]
    /\ UNCHANGED <<diff, obj, heap, last, copies, steps, call, cache>>

\* r = a - b
ColorMinus ==
    /\ colorTest.op = "init"
    /\ colorTest' = [colorTest EXCEPT !.op = "-",
                        !.r = Color_Minus(colorTest.a, colorTest.b)]
    /\ UNCHANGED <<diff, obj, heap, last, copies, steps, call, cache>>

\* r = a + b
ColorPlus ==
    /\ colorTest.op = "init"
    /\ colorTest' = [colorTest EXCEPT !.op = "+",
                        !.r = Color_Plus(colorTest.a, colorTest.b)]
    /\ UNCHANGED <<diff, obj, heap, last, copies, steps, call, cache>>

NextColor == ColorMinusAssign \/ ColorPlusAssign \/ ColorMinus \/ ColorPlus

SpecColor == InitColor /\ [][NextColor]_vars


(***************************************************************************)
(* BitmapData<T>::AbsoluteDiff, for a container given as its geometry and  *)
(* its samples in buffer order.                                            *)
(***************************************************************************)

\* a BitmapData<T> as AbsoluteDiff sees it
Container(width, height, channels, buffer) ==
    [width |-> width, height |-> height, channels |-> channels, buffer |-> buffer]

\* (int64_t)v for a sample v of an unsigned type of up to 8 bytes
ToInt64(v) == IF Len(v) = 8 THEN v ELSE v \o NumericMin(8 - Len(v))

\* static_cast<T>(v) for a 64-bit v and an unsigned T of n bytes
FromInt64(v, n) == SubSeq(v, 1, n)

\* x - y overflows the 64-bit signed range
SignedSubOverflows(x, y) ==
    /\ IsNegative(x) # IsNegative(y)
    /\ IsNegative(WrapSub(x, y)) # IsNegative(x)

\* the values r[k] may take for operand samples d[k] = d and e[k] = e.  The
\* subtraction and std::abs are evaluated in int64_t; where they overflow
\* the behaviour is undefined and the outcome is that of a build which wraps
\* or of a build which takes std::abs to be non-negative.
AbsoluteDiffSample(d, e) ==
    LET n == Len(d)
        zero == NumericMin(8)
        left == ToInt64(d)
        right == ToInt64(e)
        delta == WrapSub(left, right)
        abs == IF IsNegative(delta) THEN WrapSub(zero, delta) ELSE delta
        maxT == ToInt64(NumericMax(n))
        atLeastZero == IF LessS(zero, abs) THEN abs ELSE zero
        atMostMax(v) == IF LessS(v, maxT) THEN v ELSE maxT
        undefined == SignedSubOverflows(left, right) \/ IsNegative(abs)
    IN  {FromInt64(atMostMax(atLeastZero), n)}
            \cup (IF undefined THEN {FromInt64(atMostMax(abs), n)} ELSE {})

\* the buffers the loop of AbsoluteDiff may leave in the result
AbsoluteDiffBuffers(d, e) ==
    { r \in [1..Len(d) -> UNION { AbsoluteDiffSample(d[k], e[k]) : k \in 1..Len(d) }] :
        \A k \in 1..Len(d) : r[k] \in AbsoluteDiffSample(d[k], e[k]) }

\* the outcome of a call: the operands afterwards, the container returned
\* (results is empty when none is) and the error raised
DiffOutcome(self, other, results, err) ==
    [self |-> self, other |-> other, results |-> results, err |-> err]

\* a variant of AbsoluteDiff that does not compare the channel counts; a
\* sample missing in the shorter operand reads as 0
AbsoluteDiff_ChannelsUnchecked(self, other) ==
    IF self.width # other.width \/ self.height # other.height
    THEN {DiffOutcome(self, other, <<>>, "geometry")}
    ELSE LET n == Len(self.buffer[1])
             e == [k \in 1..Len(self.buffer) |->
                      IF k <= Len(other.buffer) THEN other.buffer[k] ELSE NumericMin(n)]
         IN  { DiffOutcome(self, other,
                   <<Container(self.width, self.height, self.channels, r)>>, None) :
                 r \in AbsoluteDiffBuffers(self.buffer, e) }

\* std::shared_ptr<BitmapData> AbsoluteDiff(const BitmapData& other): the
\* outcomes of self.AbsoluteDiff(other)
AbsoluteDiff(self, other) ==
    IF \/ self.width # other.width
       \/ self.height # other.height
       \/ self.channels # other.channels
    THEN {DiffOutcome(self, other, <<>>, "geometry")}
    ELSE { DiffOutcome(self, other,
               <<Container(self.width, self.height, self.channels, r)>>, None) :
             r \in AbsoluteDiffBuffers(self.buffer, other.buffer) }

(***************************************************************************)
(* SpecDiff: two containers of one sample type, and one AbsoluteDiff.      *)
(***************************************************************************)

\* the sample values the operands are drawn from, for n bytes
DiffSamples(n) ==
    { FromNat(0, n), FromNat(3, n), FromNat(5, n), TopBit(n), NumericMax(n) }

\* the 3-channel pixels the operands are drawn from, for n bytes
DiffPixels(n) ==
    { <<FromNat(0, n), FromNat(3, n), FromNat(5, n)>>,
      <<FromNat(5, n), FromNat(3, n), FromNat(0, n)>>,
      <<NumericMax(n), TopBit(n), FromNat(3, n)>>,
      <<FromNat(3, n), NumericMax(n), TopBit(n)>> }

\* the operands: 1x1, 2x1 and 1x2 gray containers and 1x1 RGB containers
DiffOperands(n) ==
    { Container(1, 1, 1, <<v>>) : v \in DiffSamples(n) }
    \cup { Container(2, 1, 1, <<v, w>>) : v \in DiffSamples(n), w \in DiffSamples(n) }
    \cup { Container(1, 2, 1, <<v, w>>) : v \in DiffSamples(n), w \in DiffSamples(n) }
    \cup { Container(1, 1, 3, p) : p \in DiffPixels(n) }

InitDiff ==
    /\ \E n \in SampleSizes : \E a \in DiffOperands(n), b \in DiffOperands(n) :
          diff = [T |-> n, pc |-> "call", a |-> a, b |-> b, a0 |-> a, b0 |-> b,
                  results |-> <<>>, err |-> None]
    /\ colorTest = ColorIdle
    /\ obj = ObjIdle
    /\ heap = HeapIdle
    /\ last = LastIdle
    /\ copies = {}
    /\ steps = 0
    /\ call = CallIdle
    /\ cache = CacheIdle

\* results = a.AbsoluteDiff(b)
CallAbsoluteDiff ==
    /\ diff.pc = "call"
    /\ \E out \in AbsoluteDiff(diff.a, diff.b) :
          diff' = [diff EXCEPT !.pc = "done", !.a = out.self, !.b = out.other,
                                !.results = out.results, !.err = out.err]
    /\ UNCHANGED <<colorTest, obj, heap, last, copies, steps, call, cache>>

NextDiff == CallAbsoluteDiff

SpecDiff == InitDiff /\ [][NextDiff]_vars

(***************************************************************************)
(* BitmapData<uint8_t> (bitmap_data.hpp): the objects and their buffers.   *)
(* A sample is a number in 0..SampleMax and sizeof(T) is 1.  A buffer is   *)
(* a cbeam stable_reference_buffer: objects hold references to it, copying *)
(* the reference shares the memory, and the memory is released with the    *)
(* last reference.  heap[id] holds the samples of buffer id.               *)
(***************************************************************************)

\* the number of operations of a run
MaxSteps == 5

\* the BitmapData objects of the program, and the names of the buffers
Objects == {1, 2}
BufferIds == Objects

\* std::numeric_limits<uint8_t>::max()
SampleMax == 255
\* the value of a channel index that is absent
Absent == -1
\* the reference of an object that has no buffer
NoBuffer == 0

\* T Gray() const, for uint8_t channels; the colors the model uses have a
\* luma away from a rounding tie, where llround of the double sum and of
\* the exact sum agree
Color_Gray(color) ==
    IF color.red = color.green /\ color.red = color.blue
    THEN color.red
    ELSE (299 * color.red + 587 * color.green + 114 * color.blue + 500) \div 1000

\* BitmapData() = default
DefaultBitmapData ==
    [alive |-> TRUE, width |-> 0, height |-> 0, channels |-> 0, buffer |-> NoBuffer,
     grayIndex |-> Absent, alphaIndex |-> Absent, redIndex |-> Absent,
     greenIndex |-> Absent, blueIndex |-> Absent,
     minDisplayedBrightness |-> 0, maxDisplayedBrightness |-> SampleMax]

\* the place of an object that is not constructed, or is destroyed
Destroyed == [DefaultBitmapData EXCEPT !.alive = FALSE]

\* int Size() const: Height() * Stride(), in bytes and in samples
Size(o) == o.height * (o.width * (o.channels * 1))

\* void Init(): the object afterwards, and whether Init throws
Init(o) ==
    CASE o.channels = 1 ->
           [throws |-> FALSE,
            o |-> [o EXCEPT !.redIndex = 0, !.greenIndex = 0, !.blueIndex = 0,
                            !.grayIndex = 0]]
      [] o.channels = 3 ->
           [throws |-> FALSE,
            o |-> [o EXCEPT !.redIndex = 0, !.greenIndex = 1, !.blueIndex = 2]]
      [] o.channels = 4 ->
           [throws |-> FALSE,
            o |-> [o EXCEPT !.alphaIndex = 0, !.redIndex = 1, !.greenIndex = 2,
                            !.blueIndex = 3]]
      [] OTHER -> [throws |-> TRUE, o |-> o]

\* bool operator==(const BitmapData<T>&, const BitmapData<U>&), for T = U
BitmapData_Equal(lhs, rhs) ==
    /\ lhs.width = rhs.width
    /\ lhs.height = rhs.height
    /\ lhs.channels = rhs.channels

\* the buffers that the live objects among `among` refer to
Referenced(objs, among) ==
    { objs[i].buffer : i \in { k \in among : objs[k].alive } } \ {NoBuffer}

\* cbeam::container::stable_reference_buffer(size, 1), constructed while the
\* other objects hold their buffers: the reference to the new memory
NewBuffer(objs, self, size) ==
    IF size = 0 THEN NoBuffer
    ELSE LET free == BufferIds \ Referenced(objs, Objects \ {self})
         IN  CHOOSE id \in free : \A other \in free : id <= other

\* the memory of a new buffer, zero-initialized as the specification states
Allocate(hp, id, size) ==
    IF id = NoBuffer THEN hp ELSE [hp EXCEPT ![id] = [k \in 1..size |-> 0]]

\* the memory that no object refers to any more is released
Release(objs, hp) ==
    [id \in BufferIds |-> IF id \in Referenced(objs, Objects) THEN hp[id] ELSE <<>>]

\* std::memcpy(destination, source, count) between two buffers
MemCpy(hp, destination, source, count) ==
    IF count = 0 \/ destination = NoBuffer \/ source = NoBuffer THEN hp
    ELSE [hp EXCEPT ![destination] =
             [k \in 1..Len(hp[destination]) |->
                 IF k <= count THEN hp[source][k] ELSE hp[destination][k]]]

\* a variant of Copy that leaves the destination's gray and alpha index alone
Copy_IndicesKept(src, destination, hp) ==
    IF ~BitmapData_Equal(src, destination)
    THEN [throws |-> TRUE, o |-> destination, heap |-> hp]
    ELSE [throws |-> FALSE,
          o |-> [destination EXCEPT
                    !.redIndex = src.redIndex,
                    !.greenIndex = src.greenIndex,
                    !.blueIndex = src.blueIndex,
                    !.minDisplayedBrightness = src.minDisplayedBrightness,
                    !.maxDisplayedBrightness = src.maxDisplayedBrightness],
          heap |-> MemCpy(hp, destination.buffer, src.buffer, Size(src))]

\* void Copy(BitmapData& destination) const, called on src
Copy(src, destination, hp) ==
    IF ~BitmapData_Equal(src, destination)
    THEN [throws |-> TRUE, o |-> destination, heap |-> hp]
    ELSE [throws |-> FALSE,
          o |-> [destination EXCEPT
                    !.grayIndex = src.grayIndex,
                    !.alphaIndex = src.alphaIndex,
                    !.redIndex = src.redIndex,
                    !.greenIndex = src.greenIndex,
                    !.blueIndex = src.blueIndex,
                    !.minDisplayedBrightness = src.minDisplayedBrightness,
                    !.maxDisplayedBrightness = src.maxDisplayedBrightness],
          heap |-> MemCpy(hp, destination.buffer, src.buffer, Size(src))]

\* what an operation leaves: the objects, the buffers, the exception that
\* left it (None when it returned) and the branch it took
Outcome(objs, hp, err, branch) ==
    [objs |-> objs, heap |-> Release(objs, hp), err |-> err, branch |-> branch]

\* BitmapData(int width, int height, int channels), constructing objs[self]
Construct(objs, hp, self, width, height, channels) ==
    LET sized == [DefaultBitmapData EXCEPT !.width = width, !.height = height,
                                           !.channels = channels]
        id == NewBuffer(objs, self, Size(sized))
        init == Init([sized EXCEPT !.buffer = id])
    IN  IF init.throws
        THEN Outcome(objs, hp, "channels", "throw")
        ELSE Outcome([objs EXCEPT ![self] = init.o], Allocate(hp, id, Size(sized)),
                     None, "sized")

\* BitmapData(const BitmapData& src), constructing objs[self] from objs[other]
CopyConstruct(objs, hp, self, other) ==
    LET src == objs[other]
        made == Construct(objs, hp, self, src.width, src.height, src.channels)
    IN  IF made.err # None THEN made
        ELSE LET copy == Copy(src, made.objs[self], made.heap)
             IN  IF copy.throws
                 THEN Outcome(objs, hp, "size", "throw")
                 ELSE Outcome([made.objs EXCEPT ![self] = copy.o], copy.heap,
                              None, "copied")

\* BitmapData& operator=(const BitmapData& src), objs[self] = objs[other]
CopyAssign(objs, hp, self, other) ==
    IF self = other THEN Outcome(objs, hp, None, "self")
    ELSE
      LET src == objs[other]
          this == objs[self]
          differs == ~BitmapData_Equal(src, this)
          resized == [this EXCEPT !.width = src.width, !.height = src.height,
                                  !.channels = src.channels]
          id == NewBuffer(objs, self, Size(resized))
          init == Init([resized EXCEPT !.buffer = id])
          hp1 == IF differs THEN Allocate(hp, id, Size(resized)) ELSE hp
          this1 == IF differs THEN init.o ELSE this
          copy == Copy(src, this1, hp1)
      IN  IF differs /\ init.throws
          THEN Outcome([objs EXCEPT ![self] = init.o], hp1, "channels", "realloc")
          ELSE IF copy.throws
          THEN Outcome([objs EXCEPT ![self] = this1], hp1, "size", "throw")
          ELSE Outcome([objs EXCEPT ![self] = copy.o], copy.heap, None,
                       IF differs THEN "realloc" ELSE "same")

\* BitmapData& operator=(BitmapData&& other) noexcept, objs[self] = move(objs[other])
MoveAssign(objs, hp, self, other) ==
    LET src == objs[other]
    IN  Outcome([objs EXCEPT ![self] =
                    [@ EXCEPT !.width = src.width,
                              !.height = src.height,
                              !.channels = src.channels,
                              !.buffer = src.buffer,
                              !.grayIndex = src.grayIndex,
                              !.alphaIndex = src.alphaIndex,
                              !.redIndex = src.redIndex,
                              !.greenIndex = src.greenIndex,
                              !.blueIndex = src.blueIndex,
                              !.minDisplayedBrightness = src.minDisplayedBrightness,
                              !.maxDisplayedBrightness = src.maxDisplayedBrightness]],
                hp, None, IF self = other THEN "self" ELSE "moved")

\* ~BitmapData(): the object's reference to its buffer is dropped
Destroy(objs, hp, self) ==
    Outcome([objs EXCEPT ![self] = Destroyed], hp, None, "destroyed")

\* void SetBrightnessRangeForDisplay(const T min, const T max)
SetBrightnessRangeForDisplay(objs, hp, self, min, max) ==
    Outcome([objs EXCEPT ![self] = [@ EXCEPT !.minDisplayedBrightness = min,
                                              !.maxDisplayedBrightness = max]],
            hp, None, "set")

\* ptr[k] = v
Store(buf, k, v) == [buf EXCEPT ![k + 1] = v]

\* what Plot leaves: the buffers, the value returned (None when it threw)
\* and the exception
PlotOutcome(hp, ret, err, branch) ==
    [heap |-> hp, ret |-> ret, err |-> err, branch |-> branch]

\* a variant of Plot that tests the alpha value before the coordinates
Plot_AlphaTestedFirst(o, hp, x, y, color) ==
    IF o.alphaIndex = Absent /\ color.alpha # SampleMax
    THEN PlotOutcome(hp, None, "alpha", "throw")
    ELSE IF x < 0 \/ y < 0 \/ x >= o.width \/ y >= o.height
    THEN PlotOutcome(hp, "true", None, "outside")
    ELSE
      LET ptr == (y * o.width + x) * o.channels
          buf == hp[o.buffer]
          colored == IF o.grayIndex # Absent
                     THEN Store(buf, ptr + o.grayIndex, Color_Gray(color))
                     ELSE Store(Store(Store(buf, ptr + o.redIndex, color.red),
                                      ptr + o.greenIndex, color.green),
                                ptr + o.blueIndex, color.blue)
      IN  IF o.alphaIndex = Absent
          THEN PlotOutcome([hp EXCEPT ![o.buffer] = colored], "true", None, "inside")
          ELSE PlotOutcome([hp EXCEPT ![o.buffer] =
                               Store(colored, ptr + o.alphaIndex, color.alpha)],
                           "true", None, "inside")

\* a variant of Plot that drops an alpha value it has no channel for
Plot_AlphaDropped(o, hp, x, y, color) ==
    IF x < 0 \/ y < 0 \/ x >= o.width \/ y >= o.height
    THEN PlotOutcome(hp, "true", None, "outside")
    ELSE
      LET ptr == (y * o.width + x) * o.channels
          buf == hp[o.buffer]
          colored == IF o.grayIndex # Absent
                     THEN Store(buf, ptr + o.grayIndex, Color_Gray(color))
                     ELSE Store(Store(Store(buf, ptr + o.redIndex, color.red),
                                      ptr + o.greenIndex, color.green),
                                ptr + o.blueIndex, color.blue)
      IN  IF o.alphaIndex = Absent
          THEN PlotOutcome([hp EXCEPT ![o.buffer] = colored], "true", None, "inside")
          ELSE PlotOutcome([hp EXCEPT ![o.buffer] =
                               Store(colored, ptr + o.alphaIndex, color.alpha)],
                           "true", None, "inside")

\* bool Plot(const int x, const int y, const Color<T>& color) const
Plot(o, hp, x, y, color) ==
    IF x < 0 \/ y < 0 \/ x >= o.width \/ y >= o.height
    THEN PlotOutcome(hp, "true", None, "outside")
    ELSE
      LET ptr == (y * o.width + x) * o.channels
          buf == hp[o.buffer]
          colored == IF o.grayIndex # Absent
                     THEN Store(buf, ptr + o.grayIndex, Color_Gray(color))
                     ELSE Store(Store(Store(buf, ptr + o.redIndex, color.red),
                                      ptr + o.greenIndex, color.green),
                                ptr + o.blueIndex, color.blue)
      IN  IF o.alphaIndex = Absent
          THEN IF color.alpha # SampleMax
               THEN PlotOutcome([hp EXCEPT ![o.buffer] = colored], None, "alpha", "throw")
               ELSE PlotOutcome([hp EXCEPT ![o.buffer] = colored], "true", None, "inside")
          ELSE PlotOutcome([hp EXCEPT ![o.buffer] =
                               Store(colored, ptr + o.alphaIndex, color.alpha)],
                           "true", None, "inside")

\* the values a read past the buffer may give: the behaviour is undefined
IndeterminateSamples == {0, SampleMax}

\* Buffer()[k]: the values the read may give
Read(o, hp, k) ==
    IF k >= 0 /\ k < Size(o) THEN {hp[o.buffer][k + 1]} ELSE IndeterminateSamples

\* the offset GetRed, GetGreen, GetBlue, GetAlpha and GetGray read at for
\* the channel with index `index`
Offset(o, x, y, index) == (y * o.width + x) * o.channels + index

\* Color<T> Get(const int x, const int y) const: the colors it may return,
\* each with the buffer offsets read
Get(o, hp, x, y) ==
    IF o.channels = 1
    THEN { [color |-> Color(g, g, g, SampleMax),
            reads |-> {Offset(o, x, y, o.grayIndex)}] :
             g \in Read(o, hp, Offset(o, x, y, o.grayIndex)) }
    ELSE IF o.alphaIndex # Absent
    THEN { [color |-> Color(r, g, b, a),
            reads |-> { Offset(o, x, y, i) :
                          i \in {o.redIndex, o.greenIndex, o.blueIndex, o.alphaIndex} }] :
             r \in Read(o, hp, Offset(o, x, y, o.redIndex)),
             g \in Read(o, hp, Offset(o, x, y, o.greenIndex)),
             b \in Read(o, hp, Offset(o, x, y, o.blueIndex)),
             a \in Read(o, hp, Offset(o, x, y, o.alphaIndex)) }
    ELSE { [color |-> Color(r, g, b, SampleMax),
            reads |-> { Offset(o, x, y, i) :
                          i \in {o.redIndex, o.greenIndex, o.blueIndex} }] :
             r \in Read(o, hp, Offset(o, x, y, o.redIndex)),
             g \in Read(o, hp, Offset(o, x, y, o.greenIndex)),
             b \in Read(o, hp, Offset(o, x, y, o.blueIndex)) }

(***************************************************************************)
(* Spec: a program that constructs, assigns, plots into and reads          *)
(* the containers, MaxSteps operations long.                             *)
(***************************************************************************)

\* the arguments the operations are called with
\* <<width, height>> of the containers constructed
Geometries == { <<1, 1>>, <<1, 2>> }
ChannelArguments == {1, 2, 3, 4}
NoColor == Color(0, 0, 0, 0)
PlotColors ==
    { Color(7, 7, 7, SampleMax), Color(200, 100, 50, SampleMax),
      Color(10, 20, 30, 0) }
\* the pixels of the container and the places next to it on either axis
Coordinates(o) ==
    { c \in (-1..o.width) \X (-1..o.height) :
        (c[1] \in 0..(o.width - 1)) \/ (c[2] \in 0..(o.height - 1)) }

LastOf(op, self, other, x, y, color, branch, ret, err, result, reads) ==
    [op |-> op, self |-> self, other |-> other, x |-> x, y |-> y, color |-> color,
     branch |-> branch, ret |-> ret, err |-> err, result |-> result, reads |-> reads]

\* the pairs of copies that do not involve `self`
Forget(self) == { p \in copies : self \notin p }

InitObjects ==
    /\ obj = [i \in Objects |-> Destroyed]
    /\ heap = [id \in BufferIds |-> <<>>]
    /\ last = LastOf("start", 0, 0, 0, 0, NoColor, None, None, None, NoColor, {})
    /\ copies = {}
    /\ steps = 0
    /\ call = CallIdle
    /\ cache = CacheIdle
    /\ colorTest = ColorIdle
    /\ diff = DiffIdle

\* an operation on the objects: its outcome becomes the state
Step(out, lst, cps) ==
    /\ steps < MaxSteps
    /\ steps' = steps + 1
    /\ obj' = out.objs
    /\ heap' = out.heap
    /\ last' = lst
    /\ copies' = cps
    /\ UNCHANGED <<colorTest, diff, call, cache>>

\* BitmapData<uint8_t> o;
DoDefaultConstruct ==
    \E self \in Objects :
       /\ ~obj[self].alive
       /\ Step(Outcome([obj EXCEPT ![self] = DefaultBitmapData], heap, None, "empty"),
               LastOf("DefaultConstruct", self, 0, 0, 0, NoColor, "empty", None, None,
                      NoColor, {}),
               Forget(self))

\* BitmapData<uint8_t> o(width, height, channels);
DoConstruct ==
    \E self \in Objects, g \in Geometries, c \in ChannelArguments :
       /\ ~obj[self].alive
       /\ LET out == Construct(obj, heap, self, g[1], g[2], c)
          IN  Step(out,
                   LastOf("Construct", self, 0, 0, 0, NoColor, out.branch, None, out.err,
                          NoColor, {}),
                   Forget(self))

\* BitmapData<uint8_t> o(src);
DoCopyConstruct ==
    \E self \in Objects, other \in Objects :
       /\ ~obj[self].alive
       /\ obj[other].alive
       /\ LET out == CopyConstruct(obj, heap, self, other)
          IN  Step(out,
                   LastOf("CopyConstruct", self, other, 0, 0, NoColor, out.branch, None,
                          out.err, NoColor, {}),
                   IF out.err = None THEN Forget(self) \cup {{self, other}}
                                     ELSE Forget(self))

\* the object goes out of scope
DoDestroy ==
    \E self \in Objects :
       /\ obj[self].alive
       /\ Step(Destroy(obj, heap, self),
               LastOf("Destroy", self, 0, 0, 0, NoColor, "destroyed", None, None,
                      NoColor, {}),
               Forget(self))

\* o = src;
DoCopyAssign ==
    \E self \in Objects, other \in Objects :
       /\ obj[self].alive
       /\ obj[other].alive
       /\ LET out == CopyAssign(obj, heap, self, other)
          IN  Step(out,
                   LastOf("CopyAssign", self, other, 0, 0, NoColor, out.branch, None,
                          out.err, NoColor, {}),
                   IF self = other THEN copies
                   ELSE IF out.err = None THEN Forget(self) \cup {{self, other}}
                   ELSE Forget(self))

\* o = std::move(src);
DoMoveAssign ==
    \E self \in Objects, other \in Objects :
       /\ obj[self].alive
       /\ obj[other].alive
       /\ LET out == MoveAssign(obj, heap, self, other)
          IN  Step(out,
                   LastOf("MoveAssign", self, other, 0, 0, NoColor, out.branch, None,
                          out.err, NoColor, {}),
                   IF self = other THEN copies ELSE Forget(self))

\* o.SetBrightnessRangeForDisplay(10, 200);
DoSetBrightnessRangeForDisplay ==
    \E self \in Objects :
       /\ obj[self].alive
       /\ Step(SetBrightnessRangeForDisplay(obj, heap, self, 10, 200),
               LastOf("SetBrightnessRangeForDisplay", self, 0, 0, 0, NoColor, "set",
                      None, None, NoColor, {}),
               copies)

\* o.Plot(x, y, color);
DoPlot ==
    \E self \in Objects :
       /\ obj[self].alive
       /\ \E c \in Coordinates(obj[self]), color \in PlotColors :
             LET out == Plot(obj[self], heap, c[1], c[2], color)
             IN  Step(Outcome(obj, out.heap, out.err, out.branch),
                      LastOf("Plot", self, 0, 0, 0, NoColor, out.branch, out.ret,
                             out.err, NoColor, {}),
                      copies)

Next ==
    \/ DoDefaultConstruct
    \/ DoConstruct
    \/ DoCopyConstruct
    \/ DoDestroy
    \/ DoCopyAssign
    \/ DoMoveAssign
    \/ DoSetBrightnessRangeForDisplay
    \/ DoPlot

Spec == InitObjects /\ [][Next]_vars

(***************************************************************************)
(* SpecPixel: one container, plotted into and read at the coordinates in   *)
(* and next to it.  last holds the arguments and the outcome of the call.  *)
(***************************************************************************)

InitPixel ==
    /\ \E g \in Geometries, c \in ChannelArguments :
          LET out == Construct([i \in Objects |-> Destroyed],
                               [id \in BufferIds |-> <<>>], 1, g[1], g[2], c)
          IN  /\ out.err = None
              /\ obj = out.objs
              /\ heap = out.heap
    /\ last = LastOf("start", 0, 0, 0, 0, NoColor, None, None, None, NoColor, {})
    /\ copies = {}
    /\ steps = 0
    /\ call = CallIdle
    /\ cache = CacheIdle
    /\ colorTest = ColorIdle
    /\ diff = DiffIdle

\* a call on the container: its outcome becomes the state
PixelStep(hp, lst) ==
    /\ heap' = hp
    /\ last' = lst
    /\ UNCHANGED <<obj, copies, steps, colorTest, diff, call, cache>>

\* o.Plot(x, y, color);
PixelPlot ==
    \E c \in Coordinates(obj[1]), color \in PlotColors :
       LET out == Plot(obj[1], heap, c[1], c[2], color)
       IN  PixelStep(out.heap,
                     LastOf("Plot", 1, 0, c[1], c[2], color, out.branch, out.ret,
                            out.err, NoColor, {}))

\* o.Get(x, y);
PixelGet ==
    \E c \in Coordinates(obj[1]) :
       \E got \in Get(obj[1], heap, c[1], c[2]) :
          PixelStep(heap,
                    LastOf("Get", 1, 0, c[1], c[2], NoColor, "read", None, None,
                           got.color, got.reads))

NextPixel == PixelPlot \/ PixelGet

SpecPixel == InitPixel /\ [][NextPixel]_vars

(***************************************************************************)
(* Properties of Color<T> arithmetic, checked under SpecColor.             *)
(***************************************************************************)

ColorChannels == {"red", "green", "blue"}

\* the operands of the test ColorWrap, for a sample type of n bytes
IsColorWrapCase(n, a, b) ==
    /\ a = Color(FromNat(3, n), FromNat(5, n), FromNat(7, n), NumericMax(n))
    /\ b.red = FromNat(5, n) /\ b.green = FromNat(3, n) /\ b.blue = FromNat(2, n)

\* 2^(8n) - 2 as an n-byte unsigned integer
TwoBelowWrap(n) == [i \in 1..n |-> IF i = 1 THEN 254 ELSE 255]

\* d is the n-byte value with d + y = x modulo 2^(8n)
IsDifferenceMod(d, x, y, n) ==
    /\ Len(d) = n
    /\ \A i \in 1..n : d[i] \in 0..255
    /\ WrapAdd(d, y) = x

\* C7 as the specification states it: a - b clamps red, green and blue at
\* the type's minimum when the subtraction would underflow, so that on
\* 64-bit channels (3,5,7) - (5,3,2) is (0,2,5).
C7_ClampsAtMinimum ==
    colorTest.op = "-" =>
        LET a == colorTest.a
            b == colorTest.b
            r == colorTest.r
            n == colorTest.T
        IN  /\ \A ch \in ColorChannels :
                  IF LessU(a[ch], b[ch])
                  THEN r[ch] = NumericMin(n)
                  ELSE IsDifferenceMod(r[ch], a[ch], b[ch], n)
            /\ (n = 8 /\ IsColorWrapCase(n, a, b)) =>
                  /\ r.red = FromNat(0, n)
                  /\ r.green = FromNat(2, n)
                  /\ r.blue = FromNat(5, n)

\* C7, amended: a - b leaves a as it was and yields, in each of red, green
\* and blue, the difference modulo 2^w; a subtraction that would underflow
\* wraps to a value above the minuend instead of clamping at 0, so that on
\* 64-bit channels (3,5,7) - (5,3,2) is (2^64 - 2, 2, 5).
C7_WrapsOnUnderflow ==
    colorTest.op = "-" =>
        LET a == colorTest.a
            b == colorTest.b
            r == colorTest.r
            n == colorTest.T
        IN  /\ a = colorTest.a0
            /\ \A ch \in ColorChannels :
                  /\ IsDifferenceMod(r[ch], a[ch], b[ch], n)
                  /\ LessU(a[ch], b[ch]) => LessU(a[ch], r[ch])
            /\ (n = 8 /\ IsColorWrapCase(n, a, b)) =>
                  /\ r.red = TwoBelowWrap(n)
                  /\ r.green = FromNat(2, n)
                  /\ r.blue = FromNat(5, n)

\* a - b has been computed on 64-bit channels for (3,5,7) - (5,3,2), where
\* red underflows
C7_Witness ==
    /\ colorTest.op = "-"
    /\ colorTest.T = 8
    /\ IsColorWrapCase(8, colorTest.a, colorTest.b)
    /\ LessU(colorTest.a.red, colorTest.b.red)
    /\ colorTest.r.red = TwoBelowWrap(8)

\* C8: for an unsigned w-bit sample type, a -= b sets each of red, green and
\* blue of a to (a.channel - b.channel) mod 2^w and leaves a's alpha as it
\* was; on 64-bit channels (3,5,7) -= (5,3,2) equals Color(2^64 - 2, 2, 5).
C8_MinusAssignIsModular ==
    colorTest.op = "-=" =>
        LET a0 == colorTest.a0
            a == colorTest.a
            b == colorTest.b
            n == colorTest.T
        IN  /\ \A ch \in ColorChannels : IsDifferenceMod(a[ch], a0[ch], b[ch], n)
            /\ a.alpha = a0.alpha
            /\ (n = 8 /\ IsColorWrapCase(n, a0, b)) =>
                  Color_Equal(a, Color(TwoBelowWrap(n), FromNat(2, n),
                                       FromNat(5, n), NumericMax(n)))

\* a -= b has been executed on 64-bit channels with a = (3,5,7), b = (5,3,2)
\* and an alpha of b that differs from a's
C8_Witness ==
    /\ colorTest.op = "-="
    /\ colorTest.T = 8
    /\ IsColorWrapCase(8, colorTest.a0, colorTest.b)
    /\ colorTest.b.alpha # colorTest.a0.alpha
    /\ colorTest.a.red = TwoBelowWrap(8)


(***************************************************************************)
(* Properties of AbsoluteDiff, checked under SpecDiff.                     *)
(***************************************************************************)

SameGeometry(a, b) ==
    /\ a.width = b.width
    /\ a.height = b.height
    /\ a.channels = b.channels

\* C9: AbsoluteDiff between containers whose width, height or channel count
\* differ raises the geometry-mismatch error, returns no result container
\* and leaves the samples of both operands as they were.
C9_MismatchRaises ==
    (diff.pc = "done" /\ ~SameGeometry(diff.a0, diff.b0)) =>
        /\ diff.err = "geometry"
        /\ diff.results = <<>>
        /\ diff.a = diff.a0
        /\ diff.b = diff.b0

\* AbsoluteDiff has been called on two containers that differ in nothing but
\* the channel count
C9_Witness ==
    /\ diff.pc = "done"
    /\ diff.a0.width = diff.b0.width
    /\ diff.a0.height = diff.b0.height
    /\ diff.a0.channels # diff.b0.channels
    /\ diff.err = "geometry"

\* C10: for same-geometry containers of an unsigned 8, 16, 32 or 64-bit
\* sample type AbsoluteDiff raises nothing and returns a container of that
\* geometry in which every sample is |a - b| of the operands' samples, also
\* for 64-bit samples at or above 2^63, and leaves both operands unchanged.
C10_AbsoluteDiffIsExact ==
    (diff.pc = "done" /\ SameGeometry(diff.a0, diff.b0)) =>
        /\ diff.err = None
        /\ Len(diff.results) = 1
        /\ SameGeometry(diff.results[1], diff.a0)
        /\ Len(diff.results[1].buffer) = Len(diff.a0.buffer)
        /\ \A k \in 1..Len(diff.a0.buffer) :
              LET d == diff.a0.buffer[k]
                  e == diff.b0.buffer[k]
                  r == diff.results[1].buffer[k]
              IN  IF LessU(d, e) THEN IsDifferenceMod(r, e, d, diff.T)
                                 ELSE IsDifferenceMod(r, d, e, diff.T)
        /\ diff.a = diff.a0
        /\ diff.b = diff.b0


(***************************************************************************)
(* Properties of the BitmapData objects, checked under Spec.               *)
(***************************************************************************)

\* the samples object i can reach through its buffer
Pixels(objs, hp, i) ==
    IF objs[i].buffer = NoBuffer THEN <<>> ELSE hp[objs[i].buffer]

HasIndices(o, gray, alpha, red, green, blue) ==
    /\ o.grayIndex = gray
    /\ o.alphaIndex = alpha
    /\ o.redIndex = red
    /\ o.greenIndex = green
    /\ o.blueIndex = blue

\* C1: after any sequence of construction, copy-construction, copy- and
\* move-assignment, a container with 1, 3 or 4 channels has the channel
\* indices of its channel count: for 1, red = green = blue = gray = 0 and no
\* alpha; for 3, red 0, green 1, blue 2, no gray and no alpha; for 4,
\* alpha 0, red 1, green 2, blue 3 and no gray.
C1_IndicesFollowChannels ==
    \A i \in Objects :
       obj[i].alive =>
          /\ obj[i].channels = 1 => HasIndices(obj[i], 0, Absent, 0, 0, 0)
          /\ obj[i].channels = 3 => HasIndices(obj[i], Absent, Absent, 0, 1, 2)
          /\ obj[i].channels = 4 => HasIndices(obj[i], Absent, 0, 1, 2, 3)

\* a 3-channel container has been copy-assigned to a target that had another
\* geometry, so that the target was given a new buffer and ran Init() again
C1_Witness ==
    /\ last.op = "CopyAssign"
    /\ last.branch = "realloc"
    /\ last.err = None
    /\ obj[last.self].channels = 3
    /\ obj[last.other].channels = 3

\* C2: after a copy-construction or copy-assignment b = a, whatever b was
\* before, b has a's width, height, channel count, samples and display
\* window; and while neither is assigned again a Plot on one of the two
\* changes no sample of the other.
C2_CopyIsDeep ==
    [][ /\ ( /\ last'.op \in {"CopyConstruct", "CopyAssign"}
             /\ last'.err = None
             /\ last'.self # last'.other )
           => LET b == obj'[last'.self]
                  a == obj[last'.other]
              IN  /\ BitmapData_Equal(b, a)
                  /\ Pixels(obj', heap', last'.self) = Pixels(obj, heap, last'.other)
                  /\ b.minDisplayedBrightness = a.minDisplayedBrightness
                  /\ b.maxDisplayedBrightness = a.maxDisplayedBrightness
        /\ last'.op = "Plot"
           => \A p \in copies : \A j \in p :
                 (last'.self \in p /\ j # last'.self)
                    => Pixels(obj', heap', j) = Pixels(obj, heap, j)
      ]_vars

\* C3: move assignment b = std::move(a) gives b the geometry, the channel
\* indices and the display window of a and a's buffer, with no sample
\* copied, and a no longer refers to that buffer.
C3_MoveTransfersBuffer ==
    [][ ( /\ last'.op = "MoveAssign"
          /\ last'.self # last'.other )
        => LET b == obj'[last'.self]
               a == obj[last'.other]
           IN  /\ BitmapData_Equal(b, a)
               /\ HasIndices(b, a.grayIndex, a.alphaIndex, a.redIndex,
                             a.greenIndex, a.blueIndex)
               /\ b.minDisplayedBrightness = a.minDisplayedBrightness
               /\ b.maxDisplayedBrightness = a.maxDisplayedBrightness
               /\ b.buffer = a.buffer
               /\ Pixels(obj', heap', last'.self) = Pixels(obj, heap, last'.other)
               /\ a.buffer # NoBuffer => obj'[last'.other].buffer # a.buffer
      ]_vars

(***************************************************************************)
(* Properties of Plot and Get, checked under SpecPixel.                    *)
(***************************************************************************)

\* (x, y) is a pixel of o
InBounds(o, x, y) ==
    /\ x \in 0..(o.width - 1)
    /\ y \in 0..(o.height - 1)

\* the pixel that the sample at buffer offset k belongs to
PixelOf(o, k) == <<(k \div o.channels) % o.width, (k \div o.channels) \div o.width>>

\* C4: Plot(x, y, color) with x < 0, y < 0, x >= Width() or y >= Height()
\* returns true, raises no error, whatever the color, and leaves every
\* sample of the buffer unchanged.
C4_PlotOutsideIsNoOp ==
    [][ ( /\ last'.op = "Plot"
          /\ ~InBounds(obj[last'.self], last'.x, last'.y) )
        => /\ last'.ret = "true"
           /\ last'.err = None
           /\ heap' = heap
      ]_vars

\* Plot has returned true for a place outside a container that has no alpha
\* channel and holds a plotted pixel, with a color of non-default alpha
C4_Witness ==
    /\ last.op = "Plot"
    /\ ~InBounds(obj[last.self], last.x, last.y)
    /\ obj[last.self].alphaIndex = Absent
    /\ last.color.alpha # SampleMax
    /\ last.ret = "true"
    /\ \E k \in 1..Size(obj[last.self]) : heap[obj[last.self].buffer][k] # 0

\* C5: an in-bounds Plot on a container of 1 or 3 channels raises the alpha
\* error exactly when the color's alpha is not the sample type's maximum; on
\* a container of 4 channels it raises nothing and stores the alpha given.
C5_AlphaErrorExactly ==
    ( /\ last.op = "Plot"
      /\ InBounds(obj[last.self], last.x, last.y) )
    => LET o == obj[last.self]
       IN  /\ o.channels \in {1, 3} =>
                /\ last.err \in {None, "alpha"}
                /\ last.err = "alpha" <=> last.color.alpha # SampleMax
           /\ o.channels = 4 =>
                /\ last.err = None
                /\ last.ret = "true"
                /\ heap[o.buffer][(last.y * o.width + last.x) * 4 + 1] = last.color.alpha

\* an in-bounds Plot on a 3-channel container has raised the alpha error
C5_Witness ==
    /\ last.op = "Plot"
    /\ InBounds(obj[last.self], last.x, last.y)
    /\ obj[last.self].channels = 3
    /\ last.color.alpha # SampleMax
    /\ last.err = "alpha"

\* C6: Get(x, y) with (x, y) outside [0, Width()-1] x [0, Height()-1] reads
\* no element outside the buffer and no element of another pixel.
C6_GetIsBoundsChecked ==
    ( /\ last.op = "Get"
      /\ ~InBounds(obj[last.self], last.x, last.y) )
    => \A k \in last.reads :
          /\ k \in 0..(Size(obj[last.self]) - 1)
          /\ PixelOf(obj[last.self], k) = <<last.x, last.y>>

(***************************************************************************)
(* interpolation::Do (interpolation.hpp).  A double is a record: a finite  *)
(* value is n / Resolution, which a double holds exactly, and NaN and the  *)
(* infinities are values of their own.                                     *)
(***************************************************************************)

\* a query coordinate has Resolution steps per lattice cell
Resolution == 2

Fin(n) == [kind |-> "fin", n |-> n]
NaN == [kind |-> "nan", n |-> 0]
PosInf == [kind |-> "+inf", n |-> 0]
NegInf == [kind |-> "-inf", n |-> 0]

\* the double of the integer i
FromInt(i) == Fin(i * Resolution)

\* a < b on doubles: false when either is NaN
DLess(a, b) ==
    /\ a.kind # "nan"
    /\ b.kind # "nan"
    /\ \/ a.kind = "-inf" /\ b.kind # "-inf"
       \/ a.kind # "+inf" /\ b.kind = "+inf"
       \/ a.kind = "fin" /\ b.kind = "fin" /\ a.n < b.n

\* std::min(a, b): b when b < a, else a
StdMin(a, b) == IF DLess(b, a) THEN b ELSE a

\* std::max(a, b): b when a < b, else a
StdMax(a, b) == IF DLess(a, b) THEN b ELSE a

\* static_cast<int>(std::floor(a)) of a finite a
FloorToInt(a) == a.n \div Resolution

\* dx - ix
MinusInt(dx, ix) == IF dx.kind = "fin" THEN Fin(dx.n - ix * Resolution) ELSE dx

\* x <= 0.0
NotPositive(x) ==
    \/ x.kind = "-inf"
    \/ x.kind = "fin" /\ x.n <= 0

\* i + 1 > max, the int promoted to double
NextBeyond(i, max) == DLess(max, FromInt(i + 1))

\* what a call of Do did: the branch taken, the sampler calls in order, the
\* number of Mix calls, and the result as the first sample and the set of
\* samples mixed into it
DoOutcome(branch, calls, mixes) ==
    [branch |-> branch, calls |-> calls, mixes |-> mixes,
     result |-> [base |-> calls[1],
                 mixed |-> {calls[k] : k \in 2..Len(calls)}]]

\* the branches of Do for a lattice cell (ix, iy), given the two tests
DoBranches(ix, iy, single_x, single_y) ==
    IF single_x
    THEN IF single_y
         THEN DoOutcome("point", << <<ix, iy>> >>, 0)
         ELSE DoOutcome("column", << <<ix, iy>>, <<ix, iy + 1>> >>, 1)
    ELSE IF single_y
         THEN DoOutcome("row", << <<ix, iy>>, <<ix + 1, iy>> >>, 1)
         ELSE DoOutcome("cell", << <<ix, iy>>, <<ix + 1, iy>>,
                                   <<ix, iy + 1>>, <<ix + 1, iy + 1>> >>, 7)

\* Do with the test x <= 0.0 written x < 0.0
Do_ZeroMixed(dx, dy, min_x, min_y, max_x, max_y) ==
    LET ix == FloorToInt(StdMax(min_x, StdMin(max_x, dx)))
        iy == FloorToInt(StdMax(min_y, StdMin(max_y, dy)))
        x == MinusInt(dx, ix)
        y == MinusInt(dy, iy)
    IN  DoBranches(ix, iy,
                   DLess(x, Fin(0)) \/ NextBeyond(ix, max_x),
                   DLess(y, Fin(0)) \/ NextBeyond(iy, max_y))

\* Do without the tests ix + 1 > max_x and iy + 1 > max_y
Do_EdgeUntested(dx, dy, min_x, min_y, max_x, max_y) ==
    LET ix == FloorToInt(StdMax(min_x, StdMin(max_x, dx)))
        iy == FloorToInt(StdMax(min_y, StdMin(max_y, dy)))
        x == MinusInt(dx, ix)
        y == MinusInt(dy, iy)
    IN  DoBranches(ix, iy, NotPositive(x), NotPositive(y))

\* interpolation::Do(dx, dy, min_x, min_y, max_x, max_y, Get)
Do(dx, dy, min_x, min_y, max_x, max_y) ==
    LET ix == FloorToInt(StdMax(min_x, StdMin(max_x, dx)))
        iy == FloorToInt(StdMax(min_y, StdMin(max_y, dy)))
        x == MinusInt(dx, ix)
        y == MinusInt(dy, iy)
    IN  DoBranches(ix, iy,
                   NotPositive(x) \/ NextBeyond(ix, max_x),
                   NotPositive(y) \/ NextBeyond(iy, max_y))

\* the integer bounds <<min, max>> of one axis
AxisBounds == { <<0, 0>>, <<0, 1>>, <<0, 2>>, <<-1, 1>> }

\* the queries on an axis of bounds b: every step from one cell below the
\* minimum to one cell beyond the maximum, NaN and the infinities
AxisQueries(b) ==
    {Fin(n) : n \in ((b[1] - 1) * Resolution)..((b[2] + 1) * Resolution)}
       \cup {NaN, PosInf, NegInf}

InitInterpolation ==
    /\ \E bx \in AxisBounds, by \in AxisBounds :
          call = [op |-> "bounds", min_x |-> bx[1], max_x |-> bx[2],
                  min_y |-> by[1], max_y |-> by[2]]
    /\ cache = CacheIdle
    /\ colorTest = ColorIdle
    /\ diff = DiffIdle
    /\ obj = ObjIdle
    /\ heap = HeapIdle
    /\ last = LastIdle
    /\ copies = {}
    /\ steps = 0

\* result = interpolation::Do(dx, dy, min_x, min_y, max_x, max_y, Get)
CallDo ==
    /\ \E dx \in AxisQueries(<<call.min_x, call.max_x>>),
          dy \in AxisQueries(<<call.min_y, call.max_y>>) :
          call' = [op |-> "Do", min_x |-> call.min_x, max_x |-> call.max_x,
                   min_y |-> call.min_y, max_y |-> call.max_y,
                   dx |-> dx, dy |-> dy,
                   out |-> Do(dx, dy, FromInt(call.min_x), FromInt(call.min_y),
                              FromInt(call.max_x), FromInt(call.max_y))]
    /\ UNCHANGED <<colorTest, diff, obj, heap, last, copies, steps, cache>>

NextInterpolation == CallDo

SpecInterpolation == InitInterpolation /\ [][NextInterpolation]_vars

\* the double d is the integer i
IsInteger(d, i) == d.kind = "fin" /\ d.n = i * Resolution

\* C11: for integer bounds and an integer query (x, y) inside them, Do calls
\* the sampler once, at (x, y), mixes nothing and returns that sample.
C11_IntegerQueryIsSample ==
    call.op = "Do" =>
       \A x \in call.min_x..call.max_x, y \in call.min_y..call.max_y :
          (IsInteger(call.dx, x) /\ IsInteger(call.dy, y))
             => /\ call.out.calls = << <<x, y>> >>
                /\ call.out.mixes = 0
                /\ call.out.result = [base |-> <<x, y>>, mixed |-> {}]

\* Do has answered an integer query that has a cell to its right and below
C11_Witness ==
    /\ call.op = "Do"
    /\ IsInteger(call.dx, call.min_x)
    /\ IsInteger(call.dy, call.min_y)
    /\ call.min_x < call.max_x
    /\ call.min_y < call.max_y
    /\ call.out.branch = "point"

\* C12: for integer bounds and every query, inside the bounds or not, each
\* sampler call of Do is at a lattice point inside the bounds, and Do
\* returns a value made of such samples.
C12_SamplesInsideBounds ==
    call.op = "Do" =>
       /\ Len(call.out.calls) >= 1
       /\ \A k \in 1..Len(call.out.calls) :
             /\ call.out.calls[k][1] \in call.min_x..call.max_x
             /\ call.out.calls[k][2] \in call.min_y..call.max_y
       /\ call.out.result.base \in
             (call.min_x..call.max_x) \X (call.min_y..call.max_y)

\* Do has answered a query beyond the maximum of x and between two rows
C12_Witness ==
    /\ call.op = "Do"
    /\ DLess(FromInt(call.max_x), call.dx)
    /\ call.out.branch = "column"

(***************************************************************************)
(* The display cache: _currentGamma, _gammaTable and _mtx, used by the     *)
(* threads that call ConvertToDepth8.  Of the 65536 table entries the      *)
(* model keeps those at TableIndices; a gamma is an integer.               *)
(***************************************************************************)

Threads == {1, 2}

\* the value of _mtx when no thread holds it
Unlocked == 0

\* the gamma arguments of ConvertToDepth8
Gammas == {0, 1, 2}

\* inline double _currentGamma = -1;
InitialGamma == -1

\* the entries of _gammaTable that are modelled, in the order of the loop
TableIndices == <<0, 256, 4096, 32768>>

RECURSIVE Log2(_)
\* log(v) / log(2.0) of a power of two v >= 1
Log2(v) == IF v <= 1 THEN 0 ELSE 1 + Log2(v \div 2)

\* the value FillGammaTable(gamma) stores in _gammaTable[v], for v = 0 or a
\* power of two
GammaTableEntry(gamma, v) ==
    LET gamma1 == IF gamma * 2 > 1 THEN 1 ELSE gamma * 2
        delta == 9 - gamma * 6
        val0 == v \div 256
        val1 == IF v = 0 \/ Log2(v) - delta <= 0
                THEN 0
                ELSE ((Log2(v) - delta) * 256) \div (16 - delta)
    IN  gamma1 * val1 + (1 - gamma1) * val0

\* inline uint8_t _gammaTable[65536]; (static storage is zero-initialised)
InitialTable == [k \in 1..Len(TableIndices) |-> 0]

\* the table FillGammaTable(gamma) builds
GammaTable(gamma) ==
    [k \in 1..Len(TableIndices) |-> GammaTableEntry(gamma, TableIndices[k])]

\* a lock_guard that does not wait for the mutex
Lockable_Always(mtx) == TRUE

\* std::lock_guard<std::mutex> lock(_mtx) returns only when no thread holds _mtx
Lockable(mtx) == mtx = Unlocked

\* a thread outside ConvertToDepth8
ThreadIdle == [pc |-> "idle", gamma |-> 0, v |-> 0,
               before |-> [gamma |-> InitialGamma, table |-> InitialTable],
               observed |-> InitialGamma]

InitGamma ==
    /\ cache = [gamma |-> InitialGamma, table |-> InitialTable,
                mtx |-> Unlocked, thread |-> [t \in Threads |-> ThreadIdle]]
    /\ call = CallIdle
    /\ colorTest = ColorIdle
    /\ diff = DiffIdle
    /\ obj = ObjIdle
    /\ heap = HeapIdle
    /\ last = LastIdle
    /\ copies = {}
    /\ steps = 0

\* thread t goes on as th, the cache becoming (gamma, table, mtx)
GammaStep(t, th, gamma, table, mtx) ==
    /\ cache' = [gamma |-> gamma, table |-> table, mtx |-> mtx,
                 thread |-> [cache.thread EXCEPT ![t] = th]]
    /\ UNCHANGED <<colorTest, diff, obj, heap, last, copies, steps, call>>

\* ConvertToDepth8(gamma, ...) up to the call FillGammaTable(gamma)
CallConvertToDepth8(t) ==
    /\ cache.thread[t].pc = "idle"
    /\ \E gamma \in Gammas :
          GammaStep(t, [cache.thread[t] EXCEPT !.pc = "lock", !.gamma = gamma],
                    cache.gamma, cache.table, cache.mtx)

\* std::lock_guard<std::mutex> lock(_mtx);
Lock(t) ==
    /\ cache.thread[t].pc = "lock"
    /\ Lockable(cache.mtx)
    /\ GammaStep(t, [cache.thread[t] EXCEPT
                        !.pc = "test",
                        !.before = [gamma |-> cache.gamma, table |-> cache.table]],
                 cache.gamma, cache.table, t)

\* if (gamma != _currentGamma)
TestGamma(t) ==
    /\ cache.thread[t].pc = "test"
    /\ GammaStep(t, [cache.thread[t] EXCEPT
                        !.pc = IF cache.thread[t].gamma # cache.gamma
                               THEN "assign" ELSE "unlock"],
                 cache.gamma, cache.table, cache.mtx)

\* _currentGamma = gamma;
AssignGamma(t) ==
    /\ cache.thread[t].pc = "assign"
    /\ GammaStep(t, [cache.thread[t] EXCEPT !.pc = "fill", !.v = 1],
                 cache.thread[t].gamma, cache.table, cache.mtx)

\* _gammaTable[v] = (unsigned char)t; ++v
FillEntry(t) ==
    /\ cache.thread[t].pc = "fill"
    /\ LET v == cache.thread[t].v
       IN  GammaStep(t, [cache.thread[t] EXCEPT
                            !.pc = IF v = Len(TableIndices) THEN "unlock" ELSE "fill",
                            !.v = IF v = Len(TableIndices) THEN 0 ELSE v + 1],
                     cache.gamma,
                     [cache.table EXCEPT
                         ![v] = GammaTableEntry(cache.thread[t].gamma, TableIndices[v])],
                     cache.mtx)

\* the end of FillGammaTable: ~lock_guard
Unlock(t) ==
    /\ cache.thread[t].pc = "unlock"
    /\ GammaStep(t, [cache.thread[t] EXCEPT !.pc = "map"],
                 cache.gamma, cache.table, Unlocked)

\* the values a read of _currentGamma by thread t can give: the value
\* stored, or, when another thread is writing it at the same time, the
\* value being written
ReadCurrentGamma(t) ==
    {cache.gamma} \cup
       {cache.thread[u].gamma : u \in {w \in Threads \ {t} : cache.thread[w].pc = "assign"}}

\* CalculateDisplayValue(val) in the pixel loop: if (_currentGamma == 0)
MapPixel(t) ==
    /\ cache.thread[t].pc = "map"
    /\ \E g \in ReadCurrentGamma(t) :
          GammaStep(t, [cache.thread[t] EXCEPT !.pc = "idle", !.observed = g],
                    cache.gamma, cache.table, cache.mtx)

NextGamma ==
    \E t \in Threads :
       \/ CallConvertToDepth8(t)
       \/ Lock(t)
       \/ TestGamma(t)
       \/ AssignGamma(t)
       \/ FillEntry(t)
       \/ Unlock(t)
       \/ MapPixel(t)

SpecGamma == InitGamma /\ [][NextGamma]_vars

\* the statements that read or write _currentGamma or _gammaTable
CacheAccesses == {"test", "assign", "fill", "map"}

\* C13: a thread at a statement that reads or writes the display cache holds
\* the cache lock, and no thread is at the read of the cached gamma of the
\* per-pixel display mapping while another thread has updated the gamma and
\* not yet finished the rebuild of the table.
C13_CacheAccessUnderLock ==
    \A t \in Threads :
       /\ cache.thread[t].pc \in CacheAccesses => cache.mtx = t
       /\ cache.thread[t].pc = "map" =>
             \A u \in Threads \ {t} : cache.thread[u].pc # "fill"

\* C14: a FillGammaTable(g) that finds g cached returns with the cached
\* gamma and every table entry as they were when it took the lock; one that
\* finds another gamma returns with g cached and every entry rebuilt for g;
\* and between taking and releasing the lock nothing but the call itself
\* changes the cache.
C14_RebuildOnlyOnChange ==
    [][ /\ \A t \in Threads :
              (cache.thread[t].pc = "unlock" /\ cache'.thread[t].pc = "map")
                 => LET th == cache.thread[t]
                    IN  IF th.gamma = th.before.gamma
                        THEN /\ cache.gamma = th.before.gamma
                             /\ cache.table = th.before.table
                        ELSE /\ cache.gamma = th.gamma
                             /\ cache.table = GammaTable(th.gamma)
        /\ (cache'.gamma # cache.gamma \/ cache'.table # cache.table)
              => /\ cache.mtx \in Threads
                 /\ cache'.thread[cache.mtx] # cache.thread[cache.mtx]
                 /\ cache.thread[cache.mtx].pc \in {"assign", "fill"}
      ]_vars

\* a call has found its gamma cached and the table built, and another has
\* rebuilt the table for a new gamma while the other thread waited
C14_Witness ==
    /\ cache.thread[1].pc = "map"
    /\ cache.thread[1].gamma = cache.thread[1].before.gamma
    /\ cache.table = GammaTable(cache.thread[1].gamma)
    /\ cache.table # InitialTable
    /\ cache.thread[2].pc = "lock"

(***************************************************************************)
(* The comparison operators of BitmapData<T> and BitmapData<U>.            *)
(***************************************************************************)

\* Depth() of the sample types: sizeof(T), negative for floating point
Depths == {1, 2, 4, 8, -8}

\* std::abs(depth)
Abs(depth) == IF depth < 0 THEN -depth ELSE depth

\* the geometry and depth of a container, as the operators read them
Operand(width, height, channels, depth) ==
    [width |-> width, height |-> height, channels |-> channels, depth |-> depth]

\* (double)_width * _height * _channels * std::abs(Depth())
ByteSize(o) == o.width * o.height * o.channels * Abs(o.depth)

\* operator== (lhs, rhs)
OperatorEqual(lhs, rhs) ==
    /\ lhs.width = rhs.width
    /\ lhs.height = rhs.height
    /\ lhs.channels = rhs.channels
    /\ lhs.depth = rhs.depth

\* operator!= (lhs, rhs)
OperatorNotEqual(lhs, rhs) == ~OperatorEqual(lhs, rhs)

\* operator< with <= written for <
OperatorLess_NotStrict(lhs, rhs) == ByteSize(lhs) <= ByteSize(rhs)

\* operator< (lhs, rhs)
OperatorLess(lhs, rhs) == ByteSize(lhs) < ByteSize(rhs)

\* operator> (lhs, rhs)
OperatorGreater(lhs, rhs) == OperatorLess(rhs, lhs)

\* operator<= (lhs, rhs)
OperatorLessEqual(lhs, rhs) == ~OperatorGreater(lhs, rhs)

\* operator>= (lhs, rhs)
OperatorGreaterEqual(lhs, rhs) == ~OperatorLess(lhs, rhs)

\* the containers compared
Operands ==
    {Operand(w, h, c, d) : w \in {1, 2}, h \in {1, 2}, c \in {1, 3, 4}, d \in Depths}

InitCompare ==
    /\ \E a \in Operands, b \in Operands :
          call = [op |-> "operands", a |-> a, b |-> b]
    /\ cache = CacheIdle
    /\ colorTest = ColorIdle
    /\ diff = DiffIdle
    /\ obj = ObjIdle
    /\ heap = HeapIdle
    /\ last = LastIdle
    /\ copies = {}
    /\ steps = 0

\* a == b, a != b, a < b, a > b, a <= b, a >= b
Compare ==
    /\ call.op = "operands"
    /\ LET a == call.a
           b == call.b
       IN  call' = [op |-> "compare", a |-> a, b |-> b,
                    eq |-> OperatorEqual(a, b), ne |-> OperatorNotEqual(a, b),
                    lt |-> OperatorLess(a, b), gt |-> OperatorGreater(a, b),
                    le |-> OperatorLessEqual(a, b), ge |-> OperatorGreaterEqual(a, b),
                    tl |-> OperatorLess(b, a)]
    /\ UNCHANGED <<colorTest, diff, obj, heap, last, copies, steps, cache>>

NextCompare == Compare

SpecCompare == InitCompare /\ [][NextCompare]_vars

\* C18: a == b holds exactly when width * height * channels * |depth| is the
\* same for both, so that a == b iff neither a < b nor b < a, and a <= b iff
\* a < b or a == b.
C18_EqualIsSameSize ==
    call.op = "compare" =>
       /\ call.eq <=> ByteSize(call.a) = ByteSize(call.b)
       /\ call.eq <=> (~call.lt /\ ~call.tl)
       /\ call.le <=> (call.lt \/ call.eq)

\* C18 as the code has it: a == b holds exactly when width, height, channel
\* count and depth are pairwise the same; then the sizes are the same and
\* neither a < b nor b < a; a < b or a == b implies a <= b; and a <= b iff
\* not b < a.
C18_EqualIsSameGeometry ==
    call.op = "compare" =>
       /\ call.eq <=> call.a = call.b
       /\ call.ne <=> ~call.eq
       /\ call.eq => ByteSize(call.a) = ByteSize(call.b)
       /\ call.eq => (~call.lt /\ ~call.tl)
       /\ (call.lt \/ call.eq) => call.le
       /\ call.le <=> ~call.tl
       /\ call.ge <=> ~call.lt
       /\ call.gt <=> call.tl

\* two containers of the same size and another geometry have been compared:
\* a 2 x 1 and a 1 x 2 one of the same type
C18_Witness ==
    /\ call.op = "compare"
    /\ call.a.width = 2 /\ call.a.height = 1
    /\ call.b.width = 1 /\ call.b.height = 2
    /\ call.a.channels = call.b.channels
    /\ call.a.depth = call.b.depth
    /\ ~call.eq
    /\ call.le /\ call.ge

(***************************************************************************)
(* Color<uint8_t>::Gray and Color<uint8_t>::WithBrightness.  The decimal   *)
(* coefficients are integers in units of 10^-5 and a product of two of     *)
(* them is a pair <<hi, lo>> of value (hi * 10^5 + lo) * 10^-10, with      *)
(* 0 <= lo < 10^5, so that the arithmetic is exact.  For 8-bit channels no *)
(* sum of WithBrightness lies on a rounding tie, where the double and the  *)
(* exact value could round apart.                                          *)
(***************************************************************************)

\* 10^5: the scale of a coefficient and the base of a product
Scale == 100000

\* the exact product k * x of a coefficient 0 <= k < 10^6 and an integer x
Times(k, x) ==
    LET xh == x \div Scale
        xl == x % Scale
        a == (k \div 1000) * xl
        b == (k % 1000) * xl
        low == (a % 100) * 1000 + b
    IN  << k * xh + (a \div 100) + (low \div Scale), low % Scale >>

\* p + q of two products
Sum(p, q) == << p[1] + q[1] + ((p[2] + q[2]) \div Scale), (p[2] + q[2]) % Scale >>

\* -p of a product
Negated(p) == IF p[2] = 0 THEN << -p[1], 0 >> ELSE << -p[1] - 1, Scale - p[2] >>

\* static_cast<T>(std::llround(std::min(std::max(Y + p, 0.0), 255.0)))
RoundedChannel(Y, p) ==
    LET rounded == Y + ((p[1] + (Scale \div 2)) \div Scale)
    IN  IF rounded < 0 THEN 0 ELSE IF rounded > SampleMax THEN SampleMax ELSE rounded

\* bool IsColored() const
Color_IsColored(color) == color.red # color.green \/ color.red # color.blue

\* the values Gray() can return: the rounded luma and, when the exact luma
\* lies on a tie, which the double sum can miss on either side, its neighbour
Color_GrayOutcomes(color) ==
    LET luma == 299 * color.red + 587 * color.green + 114 * color.blue
    IN  IF Color_IsColored(color) /\ luma % 1000 = 500
        THEN {luma \div 1000, luma \div 1000 + 1}
        ELSE {Color_Gray(color)}

\* WithBrightness whose green is computed like red, from V alone
Color_WithBrightness_GreenFromV(color, Y) ==
    IF Color_IsColored(color)
    THEN LET V == 61500 * color.red - 51498 * color.green - 10001 * color.blue
             U == -14713 * color.red - 28886 * color.green + 43600 * color.blue
         IN  Color(RoundedChannel(Y, Times(113983, V)),
                   RoundedChannel(Y, Times(113983, V)),
                   RoundedChannel(Y, Times(203211, U)),
                   color.alpha)
    ELSE Color(Y, Y, Y, color.alpha)

\* WithBrightness that drops the chroma
Color_WithBrightness_Gray(color, Y) == Color(Y, Y, Y, color.alpha)

\* Color<T> WithBrightness(const T Y) const
Color_WithBrightness(color, Y) ==
    IF Color_IsColored(color)
    THEN LET U == -14713 * color.red - 28886 * color.green + 43600 * color.blue
             V == 61500 * color.red - 51498 * color.green - 10001 * color.blue
         IN  Color(RoundedChannel(Y, Times(113983, V)),
                   RoundedChannel(Y, Sum(Negated(Times(39465, U)),
                                         Negated(Times(58060, V)))),
                   RoundedChannel(Y, Times(203211, U)),
                   color.alpha)
    ELSE Color(Y, Y, Y, color.alpha)

\* the channel values of the colors: those of the tests, the ends of the
\* range and their neighbours
BrightnessChannels == {0, 1, 84, 96, 127, 160, 192, 254, 255}

\* the alpha of the colors
BrightnessAlphas == {0, SampleMax}

\* the distance below Gray() of the brightness of the test WithBrightnessPlausible
TestDarkening == 10

InitBrightness ==
    /\ \E r \in BrightnessChannels, g \in BrightnessChannels,
          b \in BrightnessChannels, a \in BrightnessAlphas :
          call = [op |-> "color", color |-> Color(r, g, b, a)]
    /\ cache = CacheIdle
    /\ colorTest = ColorIdle
    /\ diff = DiffIdle
    /\ obj = ObjIdle
    /\ heap = HeapIdle
    /\ last = LastIdle
    /\ copies = {}
    /\ steps = 0

\* gray = C.Gray(); result = C.WithBrightness(gray)
CallWithBrightnessOfGray ==
    /\ call.op = "color"
    /\ \E gray \in Color_GrayOutcomes(call.color) :
          call' = [op |-> "StaySame", color |-> call.color, gray |-> gray, Y |-> gray,
                   result |-> Color_WithBrightness(call.color, gray)]
    /\ UNCHANGED <<colorTest, diff, obj, heap, last, copies, steps, cache>>

\* gray = C.Gray(); result = C.WithBrightness(Y) with Y < gray
CallWithBrightnessBelowGray ==
    /\ call.op = "color"
    /\ \E gray \in Color_GrayOutcomes(call.color) :
          \E Y \in 0..(gray - 1) :
             call' = [op |-> "Darker", color |-> call.color, gray |-> gray, Y |-> Y,
                      result |-> Color_WithBrightness(call.color, Y)]
    /\ UNCHANGED <<colorTest, diff, obj, heap, last, copies, steps, cache>>

NextBrightness == CallWithBrightnessOfGray \/ CallWithBrightnessBelowGray

SpecBrightness == InitBrightness /\ [][NextBrightness]_vars

\* |a - b| <= 1
Near(a, b) == a - b \in {-1, 0, 1}

\* C19: for a non-gray 8-bit color C, C.WithBrightness(C.Gray()) has red,
\* green and blue within 1 of C's and C's alpha; for a gray C, Gray() is the
\* value its channels share.
C19_WithBrightnessOfGrayStays ==
    call.op = "StaySame" =>
       IF Color_IsColored(call.color)
       THEN /\ Near(call.result.red, call.color.red)
            /\ Near(call.result.green, call.color.green)
            /\ Near(call.result.blue, call.color.blue)
            /\ call.result.alpha = call.color.alpha
       ELSE /\ call.gray = call.color.red
            /\ call.gray = call.color.green
            /\ call.gray = call.color.blue

\* the color of the test WithBrightnessStaySame, with its own brightness
C19_Witness ==
    /\ call.op = "StaySame"
    /\ call.color = Color(192, 160, 96, SampleMax)
    /\ call.gray = 162
    /\ call.result = Color(192, 160, 96, SampleMax)

Sentinel == 55

\* the opacity given to the pixels of a 3-channel source
Opaque == 255

\* std::lround(n / d) for n >= 0 and d > 0
RoundedQuotient(n, d) == (2 * n + d) \div (2 * d)

\* std::max(0l, std::min(255l, v))
ClampToByte(v) == IF v < 0 THEN 0 ELSE IF v > 255 THEN 255 ELSE v

\* CalculateDisplayValue that divides by the number of values of the window
CalculateDisplayValue_PerValue(val, min, max, gamma) ==
    LET clamped == IF val < min THEN min ELSE IF val > max THEN max ELSE val
    IN  ClampToByte(RoundedQuotient(255 * (clamped - min), max - min + 1))

\* uint8_t CalculateDisplayValue(T val) const, for min < max and
\* _currentGamma = gamma
CalculateDisplayValue(val, min, max, gamma) ==
    LET atLeastMin == IF val < min THEN min ELSE val
        clamped == IF max < atLeastMin THEN max ELSE atLeastMin
        difference == IF clamped >= min THEN clamped - min ELSE 0
    IN  IF gamma = 0
        THEN ClampToByte(RoundedQuotient(255 * difference, max - min))
        ELSE LET delta == 9 - gamma * 6
                 divisor == Log2(max - min + 1) - delta
                 result == Log2(clamped) - delta
             IN  IF clamped = 0 \/ result <= 0
                 THEN 0
                 ELSE IF divisor > 0
                      THEN ClampToByte(RoundedQuotient(result * 256, divisor))
                      ELSE 0

\* the display windows <<min, max>> of the linear mapping
DisplayWindows == { <<0, 255>>, <<0, 1>>, <<16, 128>>, <<100, 101>>, <<3, 250>>, <<254, 255>> }

InitDisplay ==
    /\ \E window \in DisplayWindows :
          call = [op |-> "window", min |-> window[1], max |-> window[2]]
    /\ cache = CacheIdle
    /\ colorTest = ColorIdle
    /\ diff = DiffIdle
    /\ obj = ObjIdle
    /\ heap = HeapIdle
    /\ last = LastIdle
    /\ copies = {}
    /\ steps = 0

\* CalculateDisplayValue(val) and CalculateDisplayValue(greater), gamma 0
CallCalculateDisplayValue ==
    /\ call.op = "window"
    /\ \E val \in 0..SampleMax :
          \E greater \in val..SampleMax :
             call' = [op |-> "display", min |-> call.min, max |-> call.max,
                      val |-> val, greater |-> greater,
                      out |-> CalculateDisplayValue(val, call.min, call.max, 0),
                      outGreater |-> CalculateDisplayValue(greater, call.min, call.max, 0)]
    /\ UNCHANGED <<colorTest, diff, obj, heap, last, copies, steps, cache>>

NextDisplay == CallCalculateDisplayValue

SpecDisplay == InitDisplay /\ [][NextDisplay]_vars

\* C17: with gamma 0 and a window min < max, the display value does not
\* decrease when the sample increases, is 0 at min and below and 255 at max
\* and above.
C17_LinearMappingIsMonotone ==
    call.op = "display" =>
       /\ call.out <= call.outGreater
       /\ call.val <= call.min => call.out = 0
       /\ call.val >= call.max => call.out = 255
       /\ call.out \in 0..255

\* the mapping has been applied to the maximum of a window that is not the
\* whole range, and to a sample inside the window
C17_Witness ==
    /\ call.op = "display"
    /\ call.min = 16
    /\ call.max = 128
    /\ call.val \in 17..127
    /\ call.greater = call.max
    /\ call.out \in 1..254
    /\ call.outGreater = 255

\* a BitmapData<uint8_t> with its samples and its display window
DisplayedBitmap(width, height, channels, buffer, min, max) ==
    [width |-> width, height |-> height, channels |-> channels,
     buffer |-> buffer, min |-> min, max |-> max]

\* the bytes ConvertToDepth8 writes for the pixel of o whose first sample is
\* src[1], for the display with gamma: B, G, R, A or the single gray byte
DisplayedPixel_Unordered(o, src, gamma) ==
    [k \in 1..(IF o.channels = 3 THEN 4 ELSE o.channels) |->
        IF k <= o.channels
        THEN CalculateDisplayValue(src[k], o.min, o.max, gamma)
        ELSE Opaque]

\* dest[0..destChannels - 1] of a pixel that has a source
DisplayedPixel(o, src, gamma) ==
    IF o.channels = 3
    THEN << CalculateDisplayValue(src[3], o.min, o.max, gamma),
            CalculateDisplayValue(src[2], o.min, o.max, gamma),
            CalculateDisplayValue(src[1], o.min, o.max, gamma),
            Opaque >>
    ELSE IF o.channels = 4
         THEN << CalculateDisplayValue(src[4], o.min, o.max, gamma),
                 CalculateDisplayValue(src[3], o.min, o.max, gamma),
                 CalculateDisplayValue(src[2], o.min, o.max, gamma),
                 CalculateDisplayValue(src[1], o.min, o.max, gamma) >>
         ELSE << CalculateDisplayValue(src[1], o.min, o.max, gamma) >>

\* the samples of the pixel (sx, sy) of o
SourcePixel(o, sx, sy) ==
    [k \in 1..o.channels |-> o.buffer[(sy * o.width + sx) * o.channels + k]]

\* the geometry of the destination: the crop and scaled sizes after the
\* defaults, the channels and the aligned width, the fitted region
Destination(o, x, y, w0, h0, scaledWidth0, scaledHeight0) ==
    LET w == IF w0 <= 0 THEN o.width - x ELSE w0
        h == IF h0 <= 0 THEN o.height - y ELSE h0
        scaledWidth == IF scaledWidth0 <= 0 THEN w ELSE scaledWidth0
        scaledHeight == IF scaledHeight0 <= 0 THEN h ELSE scaledHeight0
        destChannels == IF o.channels \in {1, 2} THEN 1 ELSE 4
        align == IF o.channels \in {1, 2} THEN 4 ELSE 1
        destinationIsWider == scaledWidth * h > w * scaledHeight
    IN  [w |-> w, h |-> h, scaledWidth |-> scaledWidth, scaledHeight |-> scaledHeight,
         destChannels |-> destChannels,
         alignedWidth |-> ((scaledWidth + align - 1) \div align) * align,
         scaled |-> ~(scaledWidth = w /\ scaledHeight = h),
         fillWidth |-> IF destinationIsWider
                       THEN RoundedQuotient(scaledHeight * w, h) ELSE scaledWidth,
         fillHeight |-> IF destinationIsWider
                        THEN scaledHeight ELSE RoundedQuotient(scaledWidth * h, w)]

\* the byte at offset n of the buffer ConvertToDepth8 returns, fresh being
\* the content of the bytes of new unsigned char[] that are never written
DestinationByte(o, gamma, x, y, d, n, fresh) ==
    LET j == n \div (d.alignedWidth * d.destChannels)
        inRow == n % (d.alignedWidth * d.destChannels)
        i == inRow \div d.destChannels
        k == inRow % d.destChannels
    IN  IF ~d.scaled
        THEN \* for j < h, for i < w: the pixel or the sentinel
             IF i >= d.w
             THEN fresh
             ELSE IF y + j >= 0 /\ y + j < o.height /\ x + i >= 0 /\ x + i < o.width
                  THEN DisplayedPixel(o, SourcePixel(o, x + i, y + j), gamma)[k + 1]
                  ELSE Sentinel
        ELSE IF j >= d.fillHeight
             THEN \* std::memset of the rows below the fitted region
                  Sentinel
             ELSE IF i < d.fillWidth
                  THEN \* the pixel loop, which skips pixels without a source
                       LET iSrc == x + RoundedQuotient(i * d.w, d.fillWidth)
                           jSrc == y + RoundedQuotient(j * d.h, d.fillHeight)
                       IN  IF jSrc >= 0 /\ jSrc < o.height /\ iSrc >= 0 /\ iSrc < o.width
                           THEN DisplayedPixel(o, SourcePixel(o, iSrc, jSrc), gamma)[k + 1]
                           ELSE fresh
                  ELSE \* for (i = fillWidth; i < scaledWidth; i++, ++dest) *dest = 55
                       IF inRow - d.fillWidth * d.destChannels < d.scaledWidth - d.fillWidth
                       THEN Sentinel
                       ELSE fresh

\* uint8_t* ConvertToDepth8(gamma, x, y, w, h, scaledWidth, scaledHeight)
ConvertToDepth8(o, gamma, x, y, w, h, scaledWidth, scaledHeight, fresh) ==
    LET d == Destination(o, x, y, w, h, scaledWidth, scaledHeight)
    IN  [geometry |-> d,
         bufferDepth8 |->
            [n \in 1..(d.alignedWidth * d.scaledHeight * d.destChannels) |->
                DestinationByte(o, gamma, x, y, d, n - 1, fresh)]]

\* the sample at place k of the buffers of the model: a power of two, no
\* two samples of a pixel the same
SampleAt(k) == <<1, 16, 64, 128, 32, 2>>[(k % 6) + 1]

\* the sizes of the containers converted
ConvertedGeometries == { <<1, 1>>, <<2, 1>>, <<1, 2>>, <<2, 2>> }

\* the display windows and gammas <<min, max, gamma>> of the conversions
ConvertedDisplays == { <<0, 255, 0>>, <<16, 128, 0>>, <<0, 255, 1>> }

\* the arguments <<w, h, scaledWidth, scaledHeight>>, 0 for a default
ConvertedSizes ==
    {s \in (0..2) \X (0..2) \X (0..3) \X (0..3) : s[1] = 0 <=> s[2] = 0}

InitConvert ==
    /\ \E g \in ConvertedGeometries, c \in {1, 3, 4}, display \in ConvertedDisplays,
          x \in {-1, 0, 1}, y \in {0, 1}, s \in ConvertedSizes :
          /\ x < g[1]
          /\ y < g[2]
          /\ call = [op |-> "arguments",
                     o |-> DisplayedBitmap(g[1], g[2], c,
                                           [k \in 1..(g[1] * g[2] * c) |-> SampleAt(k)],
                                           display[1], display[2]),
                     gamma |-> display[3], x |-> x, y |-> y,
                     w |-> s[1], h |-> s[2],
                     scaledWidth |-> s[3], scaledHeight |-> s[4]]
    /\ cache = CacheIdle
    /\ colorTest = ColorIdle
    /\ diff = DiffIdle
    /\ obj = ObjIdle
    /\ heap = HeapIdle
    /\ last = LastIdle
    /\ copies = {}
    /\ steps = 0

\* result = o.ConvertToDepth8(gamma, x, y, w, h, scaledWidth, scaledHeight)
DoConvertToDepth8 ==
    /\ call.op = "arguments"
    /\ \E fresh \in IndeterminateSamples :
          call' = [op |-> "ConvertToDepth8", o |-> call.o, gamma |-> call.gamma,
                   x |-> call.x, y |-> call.y,
                   out |-> ConvertToDepth8(call.o, call.gamma, call.x, call.y,
                                           call.w, call.h, call.scaledWidth,
                                           call.scaledHeight, fresh)]
    /\ UNCHANGED <<colorTest, diff, obj, heap, last, copies, steps, cache>>

NextConvert == DoConvertToDepth8

SpecConvert == InitConvert /\ [][NextConvert]_vars

\* the bytes of the destination pixel (i, j)
DestinationPixel(out, i, j) ==
    [k \in 1..out.geometry.destChannels |->
        out.bufferDepth8[(j * out.geometry.alignedWidth + i) * out.geometry.destChannels + k]]

\* C15: after a conversion with a scaled size that is not the crop size,
\* every destination pixel right of or below the fitted fillWidth x
\* fillHeight region holds 55 in each of its channels.
C15_BarsHoldSentinel ==
    (call.op = "ConvertToDepth8" /\ call.out.geometry.scaled) =>
       LET d == call.out.geometry
       IN  \A i \in 0..(d.scaledWidth - 1), j \in 0..(d.scaledHeight - 1) :
              (i >= d.fillWidth \/ j >= d.fillHeight)
                 => \A k \in 1..d.destChannels :
                       DestinationPixel(call.out, i, j)[k] = Sentinel

\* C16: after a conversion with the scaled size equal to the crop size, the
\* destination pixel (i, j) holds, for a source pixel (x + i, y + j) in
\* bounds, the display values of blue, green, red and then 255 (3 channels)
\* or alpha (4 channels), or of gray (1 channel), and 55 in every channel
\* otherwise.
C16_PixelsAreBGRA ==
    (call.op = "ConvertToDepth8" /\ ~call.out.geometry.scaled) =>
       LET d == call.out.geometry
           o == call.o
           Shown(v) == CalculateDisplayValue(v, o.min, o.max, call.gamma)
       IN  \A i \in 0..(d.w - 1), j \in 0..(d.h - 1) :
              LET sx == call.x + i
                  sy == call.y + j
                  src == (sy * o.width + sx) * o.channels
                  dest == DestinationPixel(call.out, i, j)
              IN  IF sx \in 0..(o.width - 1) /\ sy \in 0..(o.height - 1)
                  THEN /\ o.channels = 3 =>
                            dest = << Shown(o.buffer[src + 3]), Shown(o.buffer[src + 2]),
                                      Shown(o.buffer[src + 1]), 255 >>
                       /\ o.channels = 4 =>
                            dest = << Shown(o.buffer[src + 4]), Shown(o.buffer[src + 3]),
                                      Shown(o.buffer[src + 2]), Shown(o.buffer[src + 1]) >>
                       /\ o.channels = 1 => dest = << Shown(o.buffer[src + 1]) >>
                  ELSE \A k \in 1..d.destChannels : dest[k] = 55

\* a 2 x 2 crop of a 3-channel container has been converted that has a
\* column left of the image and a row below it
C16_Witness ==
    /\ call.op = "ConvertToDepth8"
    /\ ~call.out.geometry.scaled
    /\ call.o.channels = 3
    /\ call.o.width = 2
    /\ call.x = -1
    /\ call.y = 1
    /\ call.out.geometry.w = 2
    /\ call.out.geometry.h = 2
    /\ call.gamma = 0
    /\ call.o.min = 0
    /\ DestinationPixel(call.out, 1, 0) = <<128, 64, 16, 255>>
    /\ DestinationPixel(call.out, 0, 0) = <<55, 55, 55, 55>>


(***************************************************************************)
(* The alpha error of Plot, checked under SpecPixel.                       *)
(***************************************************************************)

\* C29: when an in-bounds Plot raises the alpha error, the buffer is as it
\* was before the call: no channel of the target pixel has been written.
C29_AlphaErrorLeavesBuffer ==
    [][ ( /\ last'.op = "Plot"
          /\ last'.err = "alpha"
          /\ InBounds(obj[1], last'.x, last'.y) )
        => heap' = heap ]_vars


(***************************************************************************)
(* ContainsColors, checked under SpecContains: Plot and ContainsColors on  *)
(* one container.                                                          *)
(***************************************************************************)

\* bool ContainsColors() const
ContainsColors(o, hp) ==
    IF o.channels = 1 THEN FALSE
    ELSE \E p \in 0..(o.width * o.height - 1) :
            \E k \in 1..(o.channels - 1) :
               hp[o.buffer][p * o.channels + 1] # hp[o.buffer][p * o.channels + k + 1]

\* o.ContainsColors();
PixelContainsColors ==
    PixelStep(heap,
              LastOf("ContainsColors", 1, 0, 0, 0, NoColor, "scan",
                     IF ContainsColors(obj[1], heap) THEN "true" ELSE "false",
                     None, NoColor, {}))

NextContains == PixelPlot \/ PixelContainsColors

SpecContains == InitPixel /\ [][NextContains]_vars

\* the pixel (x, y) of a container with color channels has red, green and
\* blue not all equal
IsColoredPixel(o, hp, x, y) ==
    LET ptr == (y * o.width + x) * o.channels
        red == hp[o.buffer][ptr + o.redIndex + 1]
    IN  \/ red # hp[o.buffer][ptr + o.greenIndex + 1]
        \/ red # hp[o.buffer][ptr + o.blueIndex + 1]

\* C24: ContainsColors returns true exactly when some pixel has red, green
\* and blue not all equal; it is false for every 1-channel container and for
\* every 3- or 4-channel container whose pixels are all gray-valued,
\* whatever the alpha values of a 4-channel container.
C24_ContainsColorsIsNonGray ==
    last.op = "ContainsColors"
    => ( last.ret = "true"
         <=> /\ obj[1].channels \in {3, 4}
             /\ \E x \in 0..(obj[1].width - 1), y \in 0..(obj[1].height - 1) :
                   IsColoredPixel(obj[1], heap, x, y) )


(***************************************************************************)
(* Draw(int x0, int y0, int x1, int y1, const Drawer& draw): the line walk *)
(* on the lattice. A Drawer is modelled by the set of its invocations      *)
(* that return false, AlwaysTrue for a callback that never does. Checked   *)
(* under SpecDraw: the arguments are chosen initially and one call is made.*)
(***************************************************************************)

Reach == 3

AlwaysTrue == {}

\* draw(x, y) at its n-th invocation
Drawer(draw, n) == n \notin draw

\* x0 < x1 ? 1 : -1
Direction(from, to) == IF from < to THEN 1 ELSE -1

\* the test that guards the callback, always passed
OnCanvas_Always(o, x, y) == TRUE

\* x0 >= 0 && y0 >= 0 && x0 < Width() && y0 < Height()
OnCanvas(o, x, y) == x >= 0 /\ y >= 0 /\ x < o.width /\ y < o.height

\* the test of the callback's result, never passed
Aborts_Never(result) == FALSE

\* if (!draw(x0, y0)) return;
Aborts(result) == ~result

\* the loop's exit test, on x alone
AtEnd_XOnly(x0, y0, x1, y1) == x0 = x1

\* if (x0 == x1 && y0 == y1) break;
AtEnd(x0, y0, x1, y1) == x0 = x1 /\ y0 = y1

\* the last two statements of the loop body: the step to the next point
Advance(st, dx, dy, sx, sy) ==
    LET e2 == 2 * st.err
        stepX == e2 >= dy
        errX == IF stepX THEN st.err + dy ELSE st.err
        stepY == e2 <= dx
    IN  [st EXCEPT !.x0 = IF stepX THEN st.x0 + sx ELSE st.x0,
                   !.y0 = IF stepY THEN st.y0 + sy ELSE st.y0,
                   !.err = IF stepY THEN errX + dx ELSE errX]

\* while (true) { ... }: the loop from the state st on; path holds the
\* points stepped through, calls the points handed to the callback
RECURSIVE DrawLoop(_, _, _, _, _)
DrawLoop(o, st, x1, y1, draw) ==
    LET here == <<st.x0, st.y0>>
        called == OnCanvas(o, st.x0, st.y0)
        at == [st EXCEPT !.path = Append(@, here),
                         !.calls = IF called THEN Append(@, here) ELSE @]
    IN  IF called /\ Aborts(Drawer(draw, Len(at.calls)))
        THEN [path |-> at.path, calls |-> at.calls, returned |-> "aborted"]
        ELSE IF AtEnd(st.x0, st.y0, x1, y1)
        THEN [path |-> at.path, calls |-> at.calls, returned |-> "finished"]
        ELSE DrawLoop(o, Advance(at, st.dx, st.dy, st.sx, st.sy), x1, y1, draw)

\* void Draw(int x0, int y0, const int x1, const int y1, const Drawer& draw) const
Draw(o, x0, y0, x1, y1, draw) ==
    DrawLoop(o, [x0 |-> x0, y0 |-> y0,
                 dx |-> Abs(x1 - x0), sx |-> Direction(x0, x1),
                 dy |-> -Abs(y1 - y0), sy |-> Direction(y0, y1),
                 err |-> Abs(x1 - x0) - Abs(y1 - y0),
                 path |-> <<>>, calls |-> <<>>],
             x1, y1, draw)

Canvases == {<<2, 2>>, <<3, 1>>}
EndPoints == (-1..Reach) \X (-1..Reach)
Drawers == {AlwaysTrue, {1}, {2}, {3}, {2, 3}}

InitDraw ==
    /\ \E g \in Canvases, p \in EndPoints, q \in EndPoints, draw \in Drawers :
          call = [op |-> "arguments", o |-> [width |-> g[1], height |-> g[2]],
                  x0 |-> p[1], y0 |-> p[2], x1 |-> q[1], y1 |-> q[2],
                  draw |-> draw, path |-> <<>>, calls |-> <<>>, returned |-> None]
    /\ colorTest = ColorIdle
    /\ diff = DiffIdle
    /\ obj = ObjIdle
    /\ heap = HeapIdle
    /\ last = LastIdle
    /\ copies = {}
    /\ steps = 0
    /\ cache = CacheIdle

\* o.Draw(x0, y0, x1, y1, draw);
CallDraw ==
    /\ call.op = "arguments"
    /\ LET out == Draw(call.o, call.x0, call.y0, call.x1, call.y1, call.draw)
       IN  call' = [call EXCEPT !.op = "Draw", !.path = out.path,
                                !.calls = out.calls, !.returned = out.returned]
    /\ UNCHANGED <<colorTest, diff, obj, heap, last, copies, steps, cache>>

NextDraw == CallDraw

SpecDraw == InitDraw /\ [][NextDraw]_vars

\* the lattice points of the line from (x0, y0) to (x1, y1), in the order
\* of the walk: what Draw steps through when no callback stops it
LineOf(c) == Draw(c.o, c.x0, c.y0, c.x1, c.y1, AlwaysTrue).path

\* the points of the line that lie on the canvas
VisibleLineOf(c) == SelectSeq(LineOf(c), LAMBDA p : InBounds(c.o, p[1], p[2]))

\* C21: the callback is invoked in path order, beginning at (x0, y0), and
\* once an invocation returns false Draw returns at once: no point after it
\* is handed to the callback.
C21_CallbacksInPathOrderUntilFalse ==
    call.op = "Draw"
    => LET visible == VisibleLineOf(call)
           falses == call.draw \cap (1..Len(visible))
           stops == falses # {}
           first == CHOOSE k \in falses : \A l \in falses : k <= l
       IN  /\ call.path[1] = <<call.x0, call.y0>>
           /\ InBounds(call.o, call.x0, call.y0) => call.calls[1] = <<call.x0, call.y0>>
           /\ call.calls = SubSeq(visible, 1, IF stops THEN first ELSE Len(visible))
           /\ stops <=> call.returned = "aborted"
           /\ stops => /\ Len(call.calls) = first
                       /\ call.path[Len(call.path)] = call.calls[first]

\* a walk of three points on the canvas that the second invocation stopped
C21_Witness ==
    /\ call.op = "Draw"
    /\ call.draw = {2, 3}
    /\ Len(VisibleLineOf(call)) = 3
    /\ call.calls = <<<<0, 0>>, <<1, 0>>>>
    /\ call.returned = "aborted"

\* C22 as stated: the stepping loop tests no bounds; the callback is invoked
\* for every lattice point of the line, the points off the canvas included.
C22_CallbackForEveryPoint ==
    (call.op = "Draw" /\ call.draw = AlwaysTrue) => call.calls = call.path

\* C22: the stepping loop tests each lattice point against the canvas and
\* invokes the callback for the points on the canvas only, in path order;
\* a point off the canvas is stepped over without a call.
C22_CallbackOnCanvasOnly ==
    (call.op = "Draw" /\ call.draw = AlwaysTrue)
    => /\ call.calls = SelectSeq(call.path, LAMBDA p : InBounds(call.o, p[1], p[2]))
       /\ \A k \in 1..Len(call.calls) : InBounds(call.o, call.calls[k][1], call.calls[k][2])

\* a line that starts off the canvas and ends on it
C22_Witness ==
    /\ call.op = "Draw"
    /\ call.draw = AlwaysTrue
    /\ call.x0 = -1 /\ call.y0 = 0 /\ call.x1 = 1 /\ call.y1 = 0
    /\ call.path = <<<<-1, 0>>, <<0, 0>>, <<1, 0>>>>
    /\ call.calls = <<<<0, 0>>, <<1, 0>>>>

Max(a, b) == IF a > b THEN a ELSE b

\* C23: with a callback that always returns true, Draw terminates after
\* stepping through exactly max(|x1-x0|, |y1-y0|) + 1 lattice points, the
\* first (x0, y0), the last (x1, y1), consecutive points differing by at
\* most 1 on each axis, wherever the endpoints lie.
C23_WalkIsChebyshevPath ==
    (call.op = "Draw" /\ call.draw = AlwaysTrue)
    => LET path == call.path
           n == Max(Abs(call.x1 - call.x0), Abs(call.y1 - call.y0)) + 1
       IN  /\ call.returned = "finished"
           /\ Len(path) = n
           /\ path[1] = <<call.x0, call.y0>>
           /\ path[n] = <<call.x1, call.y1>>
           /\ \A k \in 1..(n - 1) :
                 /\ Abs(path[k + 1][1] - path[k][1]) <= 1
                 /\ Abs(path[k + 1][2] - path[k][2]) <= 1
                 /\ path[k + 1] # path[k]

\* a slanted line between two points off the canvas
C23_Witness ==
    /\ call.op = "Draw"
    /\ call.draw = AlwaysTrue
    /\ call.x0 = -1 /\ call.y0 = 3 /\ call.x1 = 3 /\ call.y1 = 1
    /\ Len(call.path) = 5
    /\ call.returned = "finished"


(***************************************************************************)
(* The gamma a conversion maps with and the coherence of the cache,        *)
(* checked under SpecGamma.                                                *)
(***************************************************************************)

\* C27: within one call ConvertToDepth8(g, ...) every output sample is
\* mapped with that same g, also while other threads call ConvertToDepth8
\* with another gamma.
C27_MapsWithOwnGamma ==
    [][ \A t \in Threads :
           (cache.thread[t].pc = "map" /\ cache'.thread[t].pc = "idle")
              => cache'.thread[t].observed = cache.thread[t].gamma ]_vars

\* C28 as stated: whenever no thread holds the lock, the initial state
\* included, every table entry is the value of the build formula for the
\* cached gamma.
C28_TableIsFormulaOfCachedGamma ==
    cache.mtx = Unlocked => cache.table = GammaTable(cache.gamma)

\* C28: whenever no thread holds the lock, every table entry is the value of
\* the build formula for the cached gamma once a gamma has been cached;
\* until then the cached gamma is the initial -1 and every entry is 0.
C28_TableIsFormulaOnceBuilt ==
    cache.mtx = Unlocked
    => IF cache.gamma = InitialGamma
       THEN cache.table = InitialTable
       ELSE cache.table = GammaTable(cache.gamma)

\* the table has been built for one gamma and rebuilt for another, and no
\* thread holds the lock
C28_Witness ==
    /\ cache.mtx = Unlocked
    /\ cache.gamma = 2
    /\ cache.table = GammaTable(2)
    /\ cache.thread[1].pc = "idle"
    /\ cache.thread[1].observed = 1
    /\ cache.thread[2].pc = "map"
    /\ cache.thread[2].gamma = 2


(***************************************************************************)
(* The fitted region of a scaled conversion, checked under SpecConvert.    *)
(***************************************************************************)

\* C30: after a conversion with a scaled size that is not the crop size,
\* every destination pixel inside the fitted fillWidth x fillHeight region
\* has been written: it holds the display values of its source pixel, or 55
\* in every channel when it has no source pixel; no byte of the region is
\* left as new unsigned char[] returned it.
C30_FittedRegionIsWritten ==
    (call.op = "ConvertToDepth8" /\ call.out.geometry.scaled) =>
       LET d == call.out.geometry
           o == call.o
       IN  \A i \in 0..(d.fillWidth - 1), j \in 0..(d.fillHeight - 1) :
              LET iSrc == call.x + RoundedQuotient(i * d.w, d.fillWidth)
                  jSrc == call.y + RoundedQuotient(j * d.h, d.fillHeight)
                  dest == DestinationPixel(call.out, i, j)
              IN  IF iSrc \in 0..(o.width - 1) /\ jSrc \in 0..(o.height - 1)
                  THEN dest = DisplayedPixel(o, SourcePixel(o, iSrc, jSrc), call.gamma)
                  ELSE \A k \in 1..d.destChannels : dest[k] = Sentinel


(***************************************************************************)
(* The region scans MaxGray, MaxGray2 and MinGray on a 1-channel           *)
(* BitmapData<uint8_t>: the rows of the clamped rectangle are shared out   *)
(* to the threads of the omp parallel for, and each thread runs the loop   *)
(* body for the pixels of its rows. Checked under SpecScan.                *)
(***************************************************************************)

Scans == {"MaxGray", "MaxGray2", "MinGray"}

\* a 1-channel container with its samples
ScannedBitmap(width, height, buffer) ==
    [width |-> width, height |-> height, buffer |-> buffer]

\* T GetGray(const int x, const int y) const, with _grayIndex = 0
GetGray(o, x, y) == o.buffer[(y * o.width + x) + 1]

\* x0 = std::max(0, x0); ... y1 = std::min(_height - 1, y1);
ClampedRectangle(o, x0, y0, x1, y1) ==
    [x0 |-> IF x0 < 0 THEN 0 ELSE x0,
     y0 |-> IF y0 < 0 THEN 0 ELSE y0,
     x1 |-> IF o.width - 1 < x1 THEN o.width - 1 ELSE x1,
     y1 |-> IF o.height - 1 < y1 THEN o.height - 1 ELSE y1]

\* the extrema at their declarations: T max = 0, max2 = 0, min = max() in
\* MaxGray; T max = (T)-1, max2 = (T)-1 in MaxGray2; T min = max(),
\* min2 = max() in MinGray
InitialExtrema(fn) ==
    IF fn = "MaxGray" THEN [max |-> 0, max2 |-> 0, min |-> SampleMax, min2 |-> SampleMax]
    ELSE IF fn = "MaxGray2"
         THEN [max |-> SampleMax, max2 |-> SampleMax, min |-> SampleMax, min2 |-> SampleMax]
         ELSE [max |-> 0, max2 |-> 0, min |-> SampleMax, min2 |-> SampleMax]

\* the comparisons of the loop body, made under the lock_guard
UpdatedExtrema(fn, e, current) ==
    IF fn = "MaxGray"
    THEN LET brighter == IF current > e.max
                         THEN [e EXCEPT !.max2 = IF e.max > e.max2 THEN e.max ELSE @,
                                        !.max = current]
                         ELSE IF current > e.max2
                              THEN [e EXCEPT !.max2 = current]
                              ELSE e
         IN  IF current < brighter.min THEN [brighter EXCEPT !.min = current] ELSE brighter
    ELSE IF fn = "MaxGray2"
    THEN IF current > e.max
         THEN [e EXCEPT !.max2 = IF e.max > e.max2 THEN e.max ELSE @, !.max = current]
         ELSE IF current > e.max2 THEN [e EXCEPT !.max2 = current] ELSE e
    ELSE IF current < e.min
         THEN [e EXCEPT !.min2 = IF e.min < e.min2 THEN e.min ELSE @, !.min = current]
         ELSE IF current < e.min2 THEN [e EXCEPT !.min2 = current] ELSE e

\* return (T)max; or return (T)min;
ScanResult(fn, e) == IF fn = "MinGray" THEN e.min ELSE e.max

\* a thread of the parallel for that has the rows r to run
ScanThread(r, x0) ==
    [pc |-> IF r = <<>> THEN "done" ELSE "get", rows |-> r, x |-> x0,
     current |-> 0, loaded |-> 0]

\* the containers scanned
ScannedBitmaps ==
    { ScannedBitmap(1, 2, <<3, 7>>), ScannedBitmap(2, 2, <<3, 7, 7, 1>>),
      ScannedBitmap(2, 2, <<5, 5, 2, 9>>) }

\* the rectangles <<x0, y0, x1, y1>> asked for
ScannedRectangles == { <<0, 0, 1, 1>>, <<-1, -1, 2, 2>>, <<1, 0, 1, 1>>, <<0, 1, 3, 1>> }

InitScan ==
    /\ \E fn \in Scans, o \in ScannedBitmaps, r \in ScannedRectangles :
          call = [op |-> "arguments", fn |-> fn, o |-> o,
                  x0 |-> r[1], y0 |-> r[2], x1 |-> r[3], y1 |-> r[4],
                  sum |-> 0, extrema |-> InitialExtrema(fn), mtx |-> Unlocked,
                  thread |-> [t \in Threads |-> ScanThread(<<>>, 0)], ret |-> 0]
    /\ cache = CacheIdle
    /\ colorTest = ColorIdle
    /\ diff = DiffIdle
    /\ obj = ObjIdle
    /\ heap = HeapIdle
    /\ last = LastIdle
    /\ copies = {}
    /\ steps = 0

\* the call goes on as c
ScanStep(c) ==
    /\ call' = c
    /\ UNCHANGED <<colorTest, diff, obj, heap, last, copies, steps, cache>>

\* the call up to #pragma omp parallel for: the rectangle is clamped and
\* its rows are shared out, the first rows to thread 1, the others to 2; a
\* row without pixels (x0 > x1) runs no loop body and is left out
EnterScan ==
    /\ call.op = "arguments"
    /\ LET r == ClampedRectangle(call.o, call.x0, call.y0, call.x1, call.y1)
           n == IF r.x0 > r.x1 \/ r.y0 > r.y1 THEN 0 ELSE r.y1 - r.y0 + 1
       IN  \E first \in 0..n :
              ScanStep([call EXCEPT
                          !.op = "scan",
                          !.x0 = r.x0, !.y0 = r.y0, !.x1 = r.x1, !.y1 = r.y1,
                          !.thread = [t \in Threads |->
                             ScanThread(IF t = 1
                                        THEN [k \in 1..first |-> r.y0 + k - 1]
                                        ELSE [k \in 1..(n - first) |-> r.y0 + first + k - 1],
                                        r.x0)]])

\* const T current = GetGray(x, y); and the read of sum in sum += current
LoadSum(t) ==
    /\ call.op = "scan"
    /\ call.thread[t].pc = "get"
    /\ ScanStep([call EXCEPT
                   !.thread[t].pc = "store",
                   !.thread[t].current = GetGray(call.o, call.thread[t].x,
                                                 Head(call.thread[t].rows)),
                   !.thread[t].loaded = call.sum])

\* the write of sum in sum += current
StoreSum(t) ==
    /\ call.op = "scan"
    /\ call.thread[t].pc = "store"
    /\ ScanStep([call EXCEPT
                   !.thread[t].pc = "lock",
                   !.sum = call.thread[t].loaded + call.thread[t].current])

\* std::lock_guard<std::mutex> lock(mtx);
LockScan(t) ==
    /\ call.op = "scan"
    /\ call.thread[t].pc = "lock"
    /\ Lockable(call.mtx)
    /\ ScanStep([call EXCEPT !.thread[t].pc = "update", !.mtx = t])

\* the rest of the loop body, ~lock_guard and the step to the next pixel
UpdateExtrema(t) ==
    /\ call.op = "scan"
    /\ call.thread[t].pc = "update"
    /\ LET th == call.thread[t]
           rowDone == th.x = call.x1
           rows == IF rowDone THEN Tail(th.rows) ELSE th.rows
       IN  ScanStep([call EXCEPT
                       !.extrema = UpdatedExtrema(call.fn, call.extrema, th.current),
                       !.mtx = Unlocked,
                       !.thread[t].rows = rows,
                       !.thread[t].x = IF rowDone THEN call.x0 ELSE th.x + 1,
                       !.thread[t].pc = IF rows = <<>> THEN "done" ELSE "get"])

\* the end of the parallel region and return (T)max; or return (T)min;
ReturnScan ==
    /\ call.op = "scan"
    /\ \A t \in Threads : call.thread[t].pc = "done"
    /\ ScanStep([call EXCEPT !.op = "returned",
                             !.ret = ScanResult(call.fn, call.extrema)])

NextScan ==
    \/ EnterScan
    \/ \E t \in Threads : LoadSum(t) \/ StoreSum(t) \/ LockScan(t) \/ UpdateExtrema(t)
    \/ ReturnScan

SpecScan == InitScan /\ [][NextScan]_vars

\* the gray values of the pixels of the clamped rectangle of the call
ScannedValues(c) ==
    [p \in (c.x0..c.x1) \X (c.y0..c.y1) |-> GetGray(c.o, p[1], p[2])]

RECURSIVE SumOver(_, _)
\* the sum of f over the set s of its arguments
SumOver(f, s) ==
    IF s = {} THEN 0
    ELSE LET p == CHOOSE q \in s : TRUE IN f[p] + SumOver(f, s \ {p})

\* C25: in MaxGray, MaxGray2 and MinGray the updates of the shared sum are
\* serialized: whatever the interleaving of the threads, the sum the average
\* is computed from is the sum of the gray values of all pixels of the
\* clamped rectangle.
C25_SumIsSumOfRectangle ==
    call.op = "returned"
    => call.sum = SumOver(ScannedValues(call), DOMAIN ScannedValues(call))

\* C26: for a non-empty clamped rectangle MaxGray and MaxGray2 both return
\* the largest gray value of the pixels of the rectangle, whatever the order
\* in which the threads visit them.
C26_MaxGrayIsLargest ==
    ( /\ call.op = "returned"
      /\ call.fn \in {"MaxGray", "MaxGray2"}
      /\ DOMAIN ScannedValues(call) # {} )
    => /\ \E p \in DOMAIN ScannedValues(call) : call.ret = ScannedValues(call)[p]
       /\ \A p \in DOMAIN ScannedValues(call) : call.ret >= ScannedValues(call)[p]

=============================================================================
